---------------------------- MODULE Spec2Model ----------------------------
(***************************************************************************)
(* A model of the hsh shader generator (clang/lib/Hsh/HshGenerator.cpp).   *)
(*                                                                         *)
(* Part I   GenerateConsumer: one translation unit, the programs matched   *)
(*          in it one after the other, parameter validation, the target    *)
(*          loop, the stage compilers and the process-wide SeenHashes.     *)
(* Part II  StagesBuilder and ValueTracer: stage inference of an           *)
(*          expression tree and promotion through the interface records.   *)
(***************************************************************************)
EXTENDS Integers, Sequences, FiniteSets, TLC

(***************************************************************************)
(* Stages (enum HshStage).                                                 *)
(***************************************************************************)
HshNoStage == -1
HshHostStage == 0
HshVertexStage == 1
HshControlStage == 2
HshEvaluationStage == 3
HshGeometryStage == 4
HshFragmentStage == 5
HshMaxStage == 6

HSH_MAX_VERTEX_BUFFERS == 32
HSH_MAX_TEXTURES == 32
HSH_MAX_SAMPLERS == 32
HSH_MAX_COLOR_TARGETS == 8

(***************************************************************************)
(* Bounds of the model.                                                    *)
(***************************************************************************)
MaxProgs == 2        \* programs matched in one translation unit
MaxParms == 2        \* parameters of one program
MaxOps == 2          \* promotions asked of one builder
MaxTraces == 2       \* output assignments traced into one builder
MaxSamples == 3      \* sample calls registered with one builder
MaxLifts == 4        \* references to local variables traced or lifted
MaxAttrs == 2        \* attribute records of one builder
MaxFields == 4       \* fields of the attribute records of one builder
MaxDepth == 6        \* nested searches for a last definition

Max(a, b) == IF a >= b THEN a ELSE b

VARIABLES
  \* ---- Part I: GenerateConsumer ----
  TU,                 \* the builtin declarations the translation unit holds
  Targets,            \* ArrayRef<HshTarget> Targets, fixed for the run
  DxcLoadable,        \* environment: libdxcompiler can be loaded
  ErrorOccurred,      \* Context.getDiagnostics().hasErrorOccurred()
  SeenHashes,         \* std::unordered_set<uint64_t> SeenHashes
  OS,                 \* *OS: the stored artifacts, in emission order
  AnonOS,             \* AnonOS: records, descriptor tables and references
  pc,                 \* position of the consumer
  nprog,              \* programs matched so far
  VertexBufferParms,  \* run(): std::array<ParmVarDecl *, 32>
  TextureParms,       \* run(): per stage std::array<ParmVarDecl *, 32>
  ColorTargetParms,   \* run(): std::array<ParmVarDecl *, 8>
  UseStages,          \* run(): unsigned UseStages, as a set of stages
  nOut,               \* run(): output parameters met by the parameter loop
  Body,               \* run(): the body handed to the builder
  ti,                 \* run(): position in the target loop
  DxcShared,          \* DxcLibrary::SharedInstance holds a value
  \* ---- Part II: StagesBuilder and ValueTracer ----
  B,                  \* the StagesBuilder of the program
  bpc,                \* "building", "finalized" or "crashed"
  nops,               \* operations on B so far
  last,               \* observation: the last operation on B and B before it
  hist                \* observations of the current / last program

runVars == <<TU, Targets, DxcLoadable, ErrorOccurred, SeenHashes, OS, AnonOS, pc,
             nprog, VertexBufferParms, TextureParms, ColorTargetParms,
             UseStages, nOut, Body, ti, DxcShared, hist>>

buildVars == <<B, bpc, nops, last>>

vars == <<runVars, buildVars>>

(***************************************************************************)
(* Part I.  Parameters, targets and byte strings.                          *)
(***************************************************************************)
\* a parameter: its role attribute, the index the attribute gives and whether
\* its type is the one the role asks for
Parm(role, slot, typeOK) == [role |-> role, slot |-> slot, typeOK |-> typeOK]
ParmKinds ==
  {Parm("uniform", 0, TRUE), Parm("position", 0, TRUE), Parm("position", 0, FALSE)} \cup
  {Parm("vbuf", i, TRUE) : i \in {-1, 0, 1, HSH_MAX_VERTEX_BUFFERS}} \cup
  {Parm("vbuf", 0, FALSE)} \cup
  {Parm("ibuf", i, TRUE) : i \in {0, HSH_MAX_VERTEX_BUFFERS}} \cup
  {Parm("vtex", 0, TRUE)} \cup
  {Parm("ftex", i, TRUE) : i \in {0, 1, HSH_MAX_TEXTURES}} \cup
  {Parm("ftex", 0, FALSE)} \cup
  {Parm("color", i, TRUE) : i \in {0, HSH_MAX_COLOR_TARGETS}} \cup
  {Parm("color", 0, FALSE)}

NullParm == 0        \* nullptr in the slot tables
WildParm == -1       \* a non-null pointer read from outside a table

\* the target lists of a run: rows of hshgen's HshTargets table, in table order
TargetLists == {<<"GLSL">>, <<"HLSL", "METAL">>, <<"DXIL">>, <<"GLSL", "DXIL">>}

\* the rows of ShaderInterface.def: the stage and direction of a parameter
\* with an interface attribute
ShaderInterface ==
  [position |-> [Stage |-> HshVertexStage, Direction |-> "HshOutput"],
   color |-> [Stage |-> HshFragmentStage, Direction |-> "HshOutput"],
   vbuf |-> [Stage |-> HshVertexStage, Direction |-> "HshInput"],
   ibuf |-> [Stage |-> HshVertexStage, Direction |-> "HshInput"],
   vtex |-> [Stage |-> HshVertexStage, Direction |-> "HshInput"],
   ftex |-> [Stage |-> HshFragmentStage, Direction |-> "HshInput"]]

DetermineParmVarStage(p) ==
  IF p.role \in DOMAIN ShaderInterface THEN ShaderInterface[p.role].Stage
  ELSE HshHostStage

DetermineParmVarDirection(p) ==
  IF p.role \in DOMAIN ShaderInterface THEN ShaderInterface[p.role].Direction
  ELSE "HshInput"

(***************************************************************************)
(* The catalog of builtin declarations (HshBuiltins).                      *)
(***************************************************************************)
\* the declarations findBuiltinDecls looks up by name before the .def tables
SupportDecls ==
  {"_HshBase", "_HshBase::push_uniform", "Target", "Stage", "_HshInputRate",
   "_HshFormat", "_HshShaderData", "_HshGlobalListNode"}
\* BuiltinTypes.def: vector, matrix and texture types
BuiltinTypes ==
  {"float2", "float3", "float4", "int2", "int3", "int4", "uint2", "uint3",
   "uint4", "float3x3", "float4x4", "texture1d", "texture1d_array", "texture2d",
   "render_texture2d", "texture2d_array", "texture3d", "texturecube",
   "texturecube_array"}
\* BuiltinFunctions.def
BuiltinFunctions ==
  {"dot2", "dot3", "dot4", "normalize3", "length3", "max", "clamp1", "clamp3",
   "saturate1", "saturate3", "exp21", "lerp4", "discard"}
\* the method of the catalog the generator names (HBM_sample_texture2d)
BuiltinCXXMethods == {"texture2d::sample"}
Catalog == SupportDecls \cup BuiltinTypes \cup BuiltinFunctions \cup BuiltinCXXMethods

\* the translation units of the model: hsh.h complete, hsh.h with one
\* declaration absent, hsh.h not included
TranslationUnits == {Catalog, {}} \cup {Catalog \ {d} : d \in Catalog}

\* a catalog that goes without a function it does not find
findBuiltinDeclsNoFunctionReport(tu) ==
  [found |-> Catalog \cap tu,
   reports |-> {"E:UnableToLocate " \o d :
                  d \in {x \in Catalog \ (tu \cup BuiltinFunctions) :
                           x = "_HshBase::push_uniform" => "_HshBase" \in tu}}]

\* findBuiltinDecls, lines 502-612, with addType, addTextureType, addFunction
\* and addCXXMethod (434-499): every declaration that is not found is
\* reported; push_uniform is looked for inside _HshBase
findBuiltinDecls(tu) ==
  [found |-> Catalog \cap tu,
   reports |-> {"E:UnableToLocate " \o d :
                  d \in {x \in Catalog \ tu :
                           x = "_HshBase::push_uniform" => "_HshBase" \in tu}}]

(***************************************************************************)
(* The parameter checks of run().  Each returns what the lambda returns,   *)
(* the diagnostics it reports and the table as it leaves it.  garbage      *)
(* says what a read outside the table yields (the code reads the table     *)
(* with the index it has just found out of range).                         *)
(***************************************************************************)
ReadSlot(tbl, i, garbage) == IF i \in DOMAIN tbl THEN tbl[i] ELSE garbage

\* a check without the range test of lines 3063-3066
CheckVertexBufferParmNoRange(tbl, p, id, garbage) ==
  LET badType == ~p.typeOK
      OtherPVD == ReadSlot(tbl, p.slot, garbage)
      Ret == ~badType /\ OtherPVD = NullParm
  IN [ret |-> Ret,
      reports |-> (IF badType THEN {"E:BadVertexBufferType"} ELSE {}) \cup
                  (IF OtherPVD # NullParm THEN {"E:VertexBufferDuplicate"} ELSE {}),
      reads |-> {p.slot},
      writes |-> IF Ret THEN {p.slot} ELSE {},
      table |-> IF Ret /\ p.slot \in DOMAIN tbl
                THEN [tbl EXCEPT ![p.slot] = id] ELSE tbl]

CheckVertexBufferParm(tbl, p, id, garbage) ==
  LET badType == ~p.typeOK
      outOfRange == p.slot < 0 \/ p.slot >= HSH_MAX_VERTEX_BUFFERS
      OtherPVD == ReadSlot(tbl, p.slot, garbage)
      Ret == ~badType /\ ~outOfRange /\ OtherPVD = NullParm
  IN [ret |-> Ret,
      reports |-> (IF badType THEN {"E:BadVertexBufferType"} ELSE {}) \cup
                  (IF outOfRange THEN {"E:VertexBufferOutOfRange"} ELSE {}) \cup
                  (IF OtherPVD # NullParm THEN {"E:VertexBufferDuplicate"} ELSE {}),
      reads |-> {p.slot},
      writes |-> IF Ret THEN {p.slot} ELSE {},
      table |-> IF Ret THEN [tbl EXCEPT ![p.slot] = id] ELSE tbl]

CheckTextureParm(tbl, p, id, garbage) ==
  LET badType == ~p.typeOK
      outOfRange == p.slot < 0 \/ p.slot >= HSH_MAX_TEXTURES
      OtherPVD == ReadSlot(tbl, p.slot, garbage)
      Ret == ~badType /\ ~outOfRange /\ OtherPVD = NullParm
  IN [ret |-> Ret,
      reports |-> (IF badType THEN {"E:BadTextureType"} ELSE {}) \cup
                  (IF outOfRange THEN {"E:TextureOutOfRange"} ELSE {}) \cup
                  (IF OtherPVD # NullParm THEN {"E:TextureDuplicate"} ELSE {}),
      reads |-> {p.slot},
      writes |-> IF Ret THEN {p.slot} ELSE {},
      table |-> IF Ret THEN [tbl EXCEPT ![p.slot] = id] ELSE tbl]

CheckColorTargetParm(tbl, p, id, garbage) ==
  LET badType == ~p.typeOK
      outOfRange == p.slot < 0 \/ p.slot >= HSH_MAX_COLOR_TARGETS
      Ret == ~badType /\ ~outOfRange
  IN [ret |-> Ret,
      reports |-> (IF badType THEN {"E:BadColorTargetType"} ELSE {}) \cup
                  (IF outOfRange THEN {"E:ColorTargetOutOfRange"} ELSE {}),
      reads |-> {},
      writes |-> IF Ret THEN {p.slot} ELSE {},
      table |-> IF Ret THEN [tbl EXCEPT ![p.slot] = id] ELSE tbl]

(***************************************************************************)
(* Sources and binaries.  A stage source is the text printStage writes     *)
(* for the statements and records of a stage (impl) under a printing       *)
(* policy; a binary is a byte string.                                      *)
(***************************************************************************)
StageIndex == 0..(HshMaxStage - 1)
EmptyBytes == [kind |-> "empty", fam |-> "", stage |-> 0, n |-> 0]
SourceText(fam, S, impl) == [kind |-> "source", fam |-> fam, stage |-> S, n |-> impl]
\* the object the native compiler makes of a source: one per source
ObjectBytes(src) == [kind |-> "object", fam |-> "", stage |-> src.stage, n |-> src.n]

MakePrintingPolicy(Target) == IF Target = "GLSL" THEN "GLSL" ELSE "HLSL"

MakeCompiler(Target) ==
  IF Target \in {"DXBC", "DXIL", "VULKAN_SPIRV"} THEN "StagesCompilerDXIL"
  ELSE "StagesCompilerText"

\* the bodies a program can have: "A" and "B" differ in what the Vertex stage
\* computes and share the Fragment stage
Bodies == {"A", "B"}
ImplOf(body, S) == IF body = "B" /\ S = HshVertexStage THEN 2 ELSE 1

printResults(us, body, fam) ==
  [S \in StageIndex |->
     IF S >= HshVertexStage /\ S \in us THEN SourceText(fam, S, ImplOf(body, S))
     ELSE EmptyBytes]

\* the digest of a byte string, one value per byte string of the model
xxHash64(d) ==
  (CASE d.kind = "source" -> 1000 [] d.kind = "text" -> 2000
     [] d.kind = "object" -> 3000 [] OTHER -> 0)
  + (IF d.fam = "GLSL" THEN 100 ELSE IF d.fam = "HLSL" THEN 200 ELSE 0)
  + 10 * d.stage + d.n

\* StagesCompilerText: the source and its terminator byte
doCompileText(Sources) ==
  [bins |-> [S \in StageIndex |->
               IF Sources[S] = EmptyBytes THEN EmptyBytes
               ELSE [Sources[S] EXCEPT !.kind = "text"]],
   reports |-> {}]

\* what one call of the native compiler can answer: no result; an object
\* with or without diagnostics; an object of size 0 without any diagnostic;
\* no object, diagnostics and a failure code
DxcAnswer(result, hasObj, size, errs, hr) ==
  [result |-> result, hasObj |-> hasObj, size |-> size, errs |-> errs, hr |-> hr]
DxcQuiet == DxcAnswer(TRUE, TRUE, 1, FALSE, TRUE)
DxcResults ==
  {DxcAnswer(FALSE, FALSE, 0, FALSE, TRUE), DxcQuiet,
   DxcAnswer(TRUE, TRUE, 1, TRUE, TRUE), DxcAnswer(TRUE, TRUE, 0, FALSE, TRUE),
   DxcAnswer(TRUE, FALSE, 0, TRUE, FALSE)}

\* one iteration of the stage loop of StagesCompilerDXIL::doCompile
dxcStage(src, r) ==
  IF src = EmptyBytes THEN [out |-> EmptyBytes, reports |-> {}]
  ELSE IF ~r.result THEN [out |-> EmptyBytes, reports |-> {"E:DxcNoResult"}]
  ELSE LET HasObj == r.hasObj /\ r.size > 0
       IN [out |-> IF HasObj THEN ObjectBytes(src) ELSE EmptyBytes,
           reports |->
             (IF r.errs THEN {IF HasObj THEN "W:DxcProblem" ELSE "E:DxcProblem"}
              ELSE {}) \cup
             (IF ~r.hr THEN {"E:DxcHResult"} ELSE {})]

doCompileDXIL(Sources, results) ==
  [bins |-> [S \in StageIndex |-> dxcStage(Sources[S], results[S]).out],
   reports |-> UNION {dxcStage(Sources[S], results[S]).reports : S \in StageIndex}]

\* observation: the answer the native compiler gave for every stage that has
\* a source, with what doCompile made of it
DxcNotes(Target, Sources, results) ==
  IF MakeCompiler(Target) # "StagesCompilerDXIL" THEN {}
  ELSE {[stage |-> S, answer |-> results[S],
         kept |-> dxcStage(Sources[S], results[S]).out # EmptyBytes,
         reports |-> dxcStage(Sources[S], results[S]).reports] :
          S \in {x \in StageIndex : Sources[x] # EmptyBytes}}

\* StagesCompilerBase::compile: doCompile, then updateHashes
compile(Target, Sources, results) ==
  LET c == IF MakeCompiler(Target) = "StagesCompilerDXIL"
           THEN doCompileDXIL(Sources, results) ELSE doCompileText(Sources)
  IN [bins |-> [S \in StageIndex |->
                  [data |-> c.bins[S],
                   hash |-> IF c.bins[S] = EmptyBytes THEN 0 ELSE xxHash64(c.bins[S])]],
      reports |-> c.reports]

\* every diagnostic of the generator is of level Error but this one
Warnings == {"W:DxcProblem"}
HasError(reports) == reports \ Warnings # {}

(***************************************************************************)
(* run(), lines 3254-3321: the loop over the targets.  e carries the       *)
(* state the loop changes.                                                 *)
(***************************************************************************)
Entry(k, prog, target, S, h) ==
  [k |-> k, prog |-> prog, target |-> target, stage |-> S, hash |-> h]

\* a consumer without the SeenHashes test of line 3290
EmitBinaryAlways(e, prog, Target, S, bin) ==
  IF bin.data = EmptyBytes THEN e
  ELSE [e EXCEPT !.anon = Append(@, Entry("ref", prog, Target, S, bin.hash)),
                 !.seen = @ \cup {bin.hash},
                 !.os = Append(@, Entry("artifact", prog, Target, S, bin.hash))]

\* lines 3275-3303, one stage binary
EmitBinary(e, prog, Target, S, bin) ==
  IF bin.data = EmptyBytes THEN e
  ELSE LET e1 == [e EXCEPT !.anon = Append(@, Entry("ref", prog, Target, S, bin.hash))]
       IN IF bin.hash \in e1.seen THEN e1
          ELSE [e1 EXCEPT !.seen = @ \cup {bin.hash},
                          !.os = Append(@, Entry("artifact", prog, Target, S, bin.hash))]

RECURSIVE EmitBinaries(_, _, _, _, _)
EmitBinaries(e, prog, Target, Binaries, S) ==
  IF S >= HshMaxStage THEN e
  ELSE EmitBinaries(EmitBinary(e, prog, Target, S, Binaries[S]),
                    prog, Target, Binaries, S + 1)

\* DxcLibrary::EnsureSharedInstance, called by StagesCompilerDXIL's constructor
EnsureSharedInstance(e, loadable) ==
  IF e.shared THEN e
  ELSE [e EXCEPT !.shared = TRUE,
                 !.reports = @ \cup (IF loadable THEN {} ELSE {"E:DxcLoad"}),
                 !.err = @ \/ ~loadable]

(***************************************************************************)
(* run(), lines 3190-3203: the output parameters are traced in stage       *)
(* order.  The body is an input here: bodyErr says at which output         *)
(* parameter, if any, LastAssignmentFinder ("find") or ValueTracer         *)
(* ("trace") reports an error.  The result says whether run() returned     *)
(* from the loop and whether an error was reported.                        *)
(***************************************************************************)
NoBodyErr == [at |-> 0, kind |-> "none"]
BodyErrs(n) == {NoBodyErr} \cup [at : 1..n, kind : {"find", "trace"}]

RECURSIVE TraceLoop(_, _, _, _)
TraceLoop(err, k, n, bodyErr) ==
  IF k > n THEN [returned |-> FALSE, err |-> err, reports |-> {}]
  ELSE LET findErr == bodyErr.at = k /\ bodyErr.kind = "find"
           traceErr == bodyErr.at = k /\ bodyErr.kind = "trace"
       IN IF err \/ findErr
          THEN [returned |-> TRUE, err |-> TRUE,
                reports |-> IF findErr THEN {"E:UnsupportedStmt"} ELSE {}]
          ELSE LET rest == TraceLoop(traceErr, k + 1, n, bodyErr)
               IN [rest EXCEPT !.reports =
                     @ \cup (IF traceErr THEN {"E:Trace"} ELSE {})]

(***************************************************************************)
(* The consumer as a state machine.  pc = "start": HandleTranslationUnit    *)
(* is about to populate the catalog; "nocatalog": it returned because a    *)
(* builtin declaration is absent; "idle": between two matches of           *)
(* the finder; "parms": inside the parameter loop of run(); "targets":     *)
(* inside the target loop of run(); "finished": HandleTranslationUnit has  *)
(* written the output; "crashed": the process died on a wild pointer.      *)
(***************************************************************************)
EmptyTable(n) == [i \in 0..(n - 1) |-> NullParm]

FreshHist(prog) ==
  [prog |-> prog, err0 |-> ErrorOccurred, seen0 |-> SeenHashes,
   os0 |-> Len(OS), anon0 |-> Len(AnonOS), reports |-> {},
   outcome |-> "running", nparms |-> 0, taken |-> {}, clash |-> FALSE,
   badVB |-> FALSE, wild |-> FALSE, bodyOK |-> TRUE, bins |-> {},
   compiled |-> {}, left |-> "none", dxc |-> {}]

RunInit ==
  /\ TU \in TranslationUnits
  /\ Targets \in TargetLists
  /\ DxcLoadable \in BOOLEAN
  /\ (\A i \in 1..Len(Targets) : Targets[i] # "DXIL") => DxcLoadable
  /\ ErrorOccurred = FALSE
  /\ SeenHashes = {}
  /\ OS = <<>>
  /\ AnonOS = <<>>
  /\ pc = "start"
  /\ nprog = 0
  /\ VertexBufferParms = EmptyTable(HSH_MAX_VERTEX_BUFFERS)
  /\ TextureParms = [S \in StageIndex |-> EmptyTable(HSH_MAX_TEXTURES)]
  /\ ColorTargetParms = EmptyTable(HSH_MAX_COLOR_TARGETS)
  /\ UseStages = {HshHostStage}
  /\ nOut = 0
  /\ Body = "A"
  /\ ti = 0
  /\ DxcShared = FALSE
  /\ hist = [FreshHist(0) EXCEPT !.outcome = "none"]

\* HandleTranslationUnit, lines 3361-3370: the catalog is populated; with an
\* error reported the function returns, else the output file is created and
\* the two streams get their first lines
FindBuiltinDecls ==
  /\ pc = "start"
  /\ LET reports == findBuiltinDecls(TU).reports
     IN /\ ErrorOccurred' = (ErrorOccurred \/ HasError(reports))
        /\ hist' = [hist EXCEPT !.reports = reports]
        /\ IF ErrorOccurred \/ HasError(reports)
           THEN pc' = "nocatalog" /\ UNCHANGED <<OS, AnonOS>>
           ELSE /\ pc' = "idle"
                /\ OS' = <<Entry("header", 0, "", 0, 0)>>
                /\ AnonOS' = <<Entry("namespace", 0, "", 0, 0)>>
  /\ UNCHANGED <<TU, Targets, DxcLoadable, SeenHashes, nprog, VertexBufferParms,
                 TextureParms, ColorTargetParms, UseStages, nOut, Body, ti,
                 DxcShared>>

\* the locals of run() as run() finds and leaves them
LocalsReset ==
  /\ VertexBufferParms' = EmptyTable(HSH_MAX_VERTEX_BUFFERS)
  /\ TextureParms' = [S \in StageIndex |-> EmptyTable(HSH_MAX_TEXTURES)]
  /\ ColorTargetParms' = EmptyTable(HSH_MAX_COLOR_TARGETS)
  /\ UseStages' = {HshHostStage}
  /\ nOut' = 0
  /\ Body' = "A"
  /\ ti' = 0

\* the table a parameter's slot belongs to
TableOf(p) ==
  CASE p.role \in {"vbuf", "ibuf"} -> "VertexBufferParms"
    [] p.role = "vtex" -> "TextureParms[Vertex]"
    [] p.role = "ftex" -> "TextureParms[Fragment]"
    [] p.role = "color" -> "ColorTargetParms"
    [] OTHER -> "none"

TableSize(p) ==
  CASE p.role \in {"vbuf", "ibuf"} -> HSH_MAX_VERTEX_BUFFERS
    [] p.role \in {"vtex", "ftex"} -> HSH_MAX_TEXTURES
    [] p.role = "color" -> HSH_MAX_COLOR_TARGETS
    [] OTHER -> 1

\* what the parameter loop has before it: no parameter, or a parameter that
\* is acceptable or not by its own attribute and type
ParmsLeft == {"none", "valid", "invalid"}

\* a parameter with a wrong type or with an index outside its table
InvalidParm(p) == ~p.typeOK \/ p.slot \notin 0..(TableSize(p) - 1)

\* run() is entered for the next matched lambda (lines 3039-3123); left
\* tells the first parameter of the lambda
StartProgram(left) ==
  /\ pc = "idle"
  /\ nprog < MaxProgs
  /\ pc' = "parms"
  /\ nprog' = nprog + 1
  /\ LocalsReset
  /\ hist' = [FreshHist(nprog + 1) EXCEPT !.left = left]
  /\ UNCHANGED <<TU, Targets, DxcLoadable, ErrorOccurred, SeenHashes, OS, AnonOS,
                 DxcShared>>

\* the stage run() passes to CheckTextureParm (lines 3145, 3148)
TextureStage(p) == IF p.role = "vtex" THEN HshVertexStage ELSE HshFragmentStage

\* the check run() applies to one parameter (lines 3126-3152)
CheckOf(p, id, garbage) ==
  CASE p.role \in {"vbuf", "ibuf"} ->
         CheckVertexBufferParm(VertexBufferParms, p, id, garbage)
    [] p.role \in {"vtex", "ftex"} ->
         CheckTextureParm(TextureParms[TextureStage(p)], p, id, garbage)
    [] p.role = "color" ->
         CheckColorTargetParm(ColorTargetParms, p, id, garbage)
    [] p.role = "position" ->
         [ret |-> p.typeOK,
          reports |-> IF p.typeOK THEN {} ELSE {"E:BadVertexPositionType"},
          reads |-> {}, writes |-> {}, table |-> <<>>]
    [] OTHER -> [ret |-> TRUE, reports |-> {}, reads |-> {}, writes |-> {},
                 table |-> <<>>]

\* one iteration of the parameter loop of run() (lines 3125-3153).  The read
\* past a table yields a null pointer ("null") or a wild one; the duplicate
\* report then dereferences the wild pointer and goes on ("wild") or the
\* process dies there ("crash").
CheckParm(p, oob, left) ==
  /\ pc = "parms"
  /\ hist.nparms < MaxParms
  /\ hist.left # "none"
  /\ (hist.left = "invalid") = InvalidParm(p)
  /\ hist.nparms + 1 = MaxParms => left = "none"
  /\ LET \* the parameter, told from the others of its table
         id == 1 + Cardinality({t \in hist.taken : t[1] = TableOf(p)})
         r == CheckOf(p, id, IF oob = "null" THEN NullParm ELSE WildParm)
         outside == {i \in r.reads \cup r.writes : i \notin 0..(TableSize(p) - 1)}
         crash == oob = "crash"
         \* what is reported before the table is read
         pre == r.reports \ {"E:VertexBufferDuplicate", "E:TextureDuplicate"}
         isOut == DetermineParmVarDirection(p) # "HshInput"
     IN /\ outside = {} => oob = "null"
        /\ ErrorOccurred' = (ErrorOccurred \/ HasError(IF crash THEN pre ELSE r.reports))
        /\ pc' = IF crash THEN "crashed" ELSE IF r.ret THEN "parms" ELSE "idle"
        /\ IF r.ret /\ ~crash
           THEN /\ VertexBufferParms' =
                     IF p.role \in {"vbuf", "ibuf"} THEN r.table
                     ELSE VertexBufferParms
                /\ TextureParms' =
                     IF p.role \in {"vtex", "ftex"}
                     THEN [TextureParms EXCEPT ![TextureStage(p)] = r.table]
                     ELSE TextureParms
                /\ ColorTargetParms' =
                     IF p.role = "color" THEN r.table ELSE ColorTargetParms
                /\ UseStages' = IF isOut
                                THEN UseStages \cup {DetermineParmVarStage(p)}
                                ELSE UseStages
                /\ nOut' = IF isOut THEN nOut + 1 ELSE nOut
                /\ UNCHANGED <<Body, ti>>
           ELSE LocalsReset
        /\ hist' = [hist EXCEPT
             !.nparms = @ + 1,
             !.left = left,
             !.reports = @ \cup (IF crash THEN pre ELSE r.reports),
             !.outcome = IF crash THEN "crashed"
                         ELSE IF r.ret THEN "running" ELSE "rejected",
             !.badVB = @ \/ (p.role \in {"vbuf", "ibuf"} /\
                             (p.slot < 0 \/ p.slot >= HSH_MAX_VERTEX_BUFFERS)),
             !.wild = @ \/ outside # {},
             !.clash = @ \/ (r.ret /\ <<TableOf(p), p.slot>> \in hist.taken),
             !.taken = IF r.ret /\ TableOf(p) # "none"
                       THEN @ \cup {<<TableOf(p), p.slot>>} ELSE @]
  /\ UNCHANGED <<TU, Targets, DxcLoadable, SeenHashes, OS, AnonOS, nprog, DxcShared>>

\* run() from the end of the parameter loop to the target loop (lines
\* 3155-3252): the tables are handed to the builder, the outputs are traced,
\* the results finalized and the shader record printed
Build(bodyErr, body) ==
  /\ pc = "parms"
  /\ hist.left = "none"
  /\ LET tl == TraceLoop(ErrorOccurred, 1, nOut, bodyErr)
     IN /\ ErrorOccurred' = tl.err
        /\ IF tl.returned
           THEN /\ pc' = "idle"
                /\ LocalsReset
                /\ AnonOS' = AnonOS
                /\ hist' = [hist EXCEPT !.reports = @ \cup tl.reports,
                                        !.bodyOK = bodyErr = NoBodyErr,
                                        !.outcome = "aborted"]
           ELSE /\ pc' = "targets"
                /\ VertexBufferParms' = EmptyTable(HSH_MAX_VERTEX_BUFFERS)
                /\ TextureParms' = [S \in StageIndex |-> EmptyTable(HSH_MAX_TEXTURES)]
                /\ ColorTargetParms' = EmptyTable(HSH_MAX_COLOR_TARGETS)
                /\ UseStages' = UseStages
                /\ nOut' = nOut
                /\ Body' = body
                /\ ti' = 1
                /\ AnonOS' = Append(AnonOS, Entry("record", hist.prog, "", 0, 0))
                /\ hist' = [hist EXCEPT !.reports = @ \cup tl.reports,
                                        !.bodyOK = bodyErr = NoBodyErr,
                                        !.taken = {}]
  /\ UNCHANGED <<TU, Targets, DxcLoadable, SeenHashes, OS, nprog, DxcShared>>

\* one iteration of the target loop of run() (lines 3254-3321) and, after
\* the last one, the end of run() (lines 3323-3337)
EmitTarget(results) ==
  /\ pc = "targets"
  /\ LET Target == Targets[ti]
         Sources == printResults(UseStages, Body, MakePrintingPolicy(Target))
         e0 == [err |-> ErrorOccurred, seen |-> SeenHashes, os |-> OS,
                anon |-> AnonOS, shared |-> DxcShared, reports |-> {}]
         e1 == IF MakeCompiler(Target) = "StagesCompilerDXIL"
               THEN EnsureSharedInstance(e0, DxcLoadable) ELSE e0
         c == compile(Target, Sources, results)
         e2 == [e1 EXCEPT !.reports = @ \cup c.reports,
                          !.err = @ \/ HasError(c.reports),
                          !.anon = Append(@, Entry("table", hist.prog, Target, 0, 0))]
         e3 == EmitBinaries(e2, hist.prog, Target, c.bins, HshHostStage)
         lastTarget == ti = Len(Targets)
     IN IF e1.err
        THEN /\ ErrorOccurred' = TRUE
             /\ DxcShared' = e1.shared
             /\ pc' = "idle"
             /\ LocalsReset
             /\ hist' = [hist EXCEPT !.reports = @ \cup e1.reports,
                                     !.outcome = "aborted"]
             /\ UNCHANGED <<SeenHashes, OS, AnonOS>>
        ELSE /\ ErrorOccurred' = e3.err
             /\ DxcShared' = e3.shared
             /\ SeenHashes' = e3.seen
             /\ OS' = e3.os
             /\ AnonOS' = IF lastTarget
                          THEN Append(e3.anon, Entry("define", hist.prog, "", 0, 0))
                          ELSE e3.anon
             /\ hist' = [hist EXCEPT
                   !.reports = @ \cup e3.reports,
                   !.bins = @ \cup {[target |-> Target, stage |-> S,
                                      hash |-> c.bins[S].hash] :
                                       S \in {x \in StageIndex :
                                                c.bins[x].data # EmptyBytes}},
                   !.compiled = @ \cup {Target},
                   !.dxc = @ \cup DxcNotes(Target, Sources, results),
                   !.outcome = IF lastTarget THEN "completed" ELSE @]
             /\ IF lastTarget
                THEN pc' = "idle" /\ LocalsReset
                ELSE /\ pc' = "targets"
                     /\ ti' = ti + 1
                     /\ UNCHANGED <<VertexBufferParms, TextureParms,
                                    ColorTargetParms, UseStages, nOut, Body>>
  /\ UNCHANGED <<TU, Targets, DxcLoadable, nprog>>

\* the answers of the native compiler to the two stages of one target: every
\* answer for the Vertex stage beside a clean object for the Fragment stage,
\* and no result for the Fragment stage beside a clean object for the Vertex
\* stage; a stage that is not compiled has none
AnswerPairs ==
  {<<r, DxcQuiet>> : r \in DxcResults} \cup
  {<<DxcQuiet, DxcAnswer(FALSE, FALSE, 0, FALSE, TRUE)>>}
ResultChoices ==
  {[S \in StageIndex |-> IF S = HshVertexStage THEN vf[1] ELSE vf[2]] :
     vf \in {x \in AnswerPairs :
               LET live(S) == /\ S \in UseStages
                              /\ pc = "targets"
                              /\ MakeCompiler(Targets[ti]) = "StagesCompilerDXIL"
               IN /\ ~live(HshVertexStage) => x[1] = DxcQuiet
                  /\ ~live(HshFragmentStage) => x[2] = DxcQuiet}}

\* HandleTranslationUnit after matchAST (lines 3386-3390)
Finish ==
  /\ pc = "idle"
  /\ pc' = "finished"
  /\ OS' = OS \o AnonOS
  /\ DxcShared' = FALSE
  /\ UNCHANGED <<TU, Targets, DxcLoadable, ErrorOccurred, SeenHashes, AnonOS, nprog,
                 VertexBufferParms, TextureParms, ColorTargetParms, UseStages,
                 nOut, Body, ti, hist>>

(***************************************************************************)
(* Part II: StagesBuilder and ValueTracer.  An expression is a tree of     *)
(* nodes [k, n, r, d, i, a]: k the node class, n a name (the declaration,  *)
(* member, operator, type or sampler a node refers to), a the children.    *)
(* A parameter reference carries the slot of its attribute in i; a         *)
(* reference to a field of an interface record carries the record array    *)
(* in r, the consumer stage of the record in d and the field number in i.  *)
(***************************************************************************)
Ex(k, n, a) == [k |-> k, n |-> n, r |-> "", d |-> 0, i |-> 0, a |-> a]
NullExpr == Ex("nullptr", "", <<>>)
FieldReference(VD, arr, D, Field) ==
  [k |-> "MemberExpr", n |-> VD, r |-> arr, d |-> D, i |-> Field, a |-> <<>>]
NullField == -1

\* Expr::isSameComparisonOperand of the AST library: equality of the trees
ExprIsSameComparisonOperand(E1, E2) == E1 = E2

\* InterfaceRecord::isSameComparisonOperand
isSameComparisonOperand(E1, E2) == E1 = E2 \/ ExprIsSameComparisonOperand(E1, E2)

\* an InterfaceRecord as default-constructed and after initializeRecord;
\* Requested (every expression a field was asked for) and Finalized (calls
\* of finalizeRecord) are observations
NoRecord ==
  [Record |-> FALSE, SStage |-> HshNoStage, DStage |-> HshNoStage,
   Fields |-> <<>>, Requested |-> {}, Finalized |-> 0]
initializeRecord(S, D) ==
  [NoRecord EXCEPT !.Record = TRUE, !.SStage = S, !.DStage = D]

\* a record that never matches a request
getFieldForExprAlwaysNew(rec, E, IgnoreExisting) ==
  [Field |-> Len(rec.Fields), ub |-> ~rec.Record,
   rec |-> [rec EXCEPT !.Fields = Append(@, E), !.Requested = @ \cup {E}]]

\* Field is the number of the field (NullField: nullptr); ub: the field was
\* added to the null Record of a record that was not initialized
getFieldForExpr(rec, E, IgnoreExisting) ==
  LET hits == {j \in 1..Len(rec.Fields) : isSameComparisonOperand(rec.Fields[j], E)}
      P == CHOOSE j \in hits : \A h \in hits : j <= h
  IN IF hits # {}
     THEN [Field |-> IF IgnoreExisting THEN NullField ELSE P - 1, ub |-> FALSE,
           rec |-> [rec EXCEPT !.Requested = @ \cup {E}]]
     ELSE [Field |-> Len(rec.Fields), ub |-> ~rec.Record,
           rec |-> [rec EXCEPT !.Fields = Append(@, E), !.Requested = @ \cup {E}]]

createFieldReference(rec, arr, D, E, VD, IgnoreExisting) ==
  LET f == getFieldForExpr(rec, E, IgnoreExisting)
  IN [e |-> IF f.Field = NullField THEN NullExpr
            ELSE FieldReference(VD, arr, D, f.Field),
      rec |-> f.rec, ub |-> f.ub]

createProducerFieldReference(rec, arr, D, E) ==
  createFieldReference(rec, arr, D, E, "Producer", TRUE)
createConsumerFieldReference(rec, arr, D, E) ==
  createFieldReference(rec, arr, D, E, "Consumer", FALSE)

\* the constructor's second loop (lines 2027-2033)
RECURSIVE InitInterStageRecords(_, _, _, _)
InitInterStageRecords(recs, us, D, S) ==
  IF D >= HshMaxStage THEN recs
  ELSE IF D \in us
       THEN InitInterStageRecords([recs EXCEPT ![D] = initializeRecord(S, D)],
                                  us, D + 1, D)
       ELSE InitInterStageRecords(recs, us, D + 1, S)

StagesBuilder(us) ==
  [UseStages |-> us,
   HostToStageRecords |->
     [D \in StageIndex |-> IF D >= HshVertexStage /\ D \in us
                           THEN initializeRecord(HshHostStage, D) ELSE NoRecord],
   InterStageRecords |->
     InitInterStageRecords([D \in StageIndex |-> NoRecord], us,
                           HshControlStage, HshVertexStage),
   StageStmts |-> [S \in StageIndex |-> [Stmts |-> <<>>, StmtDeclRefCount |-> <<>>]],
   SampleCalls |-> [S \in StageIndex |-> <<>>],
   Samplers |-> <<>>,
   UsedCaptures |-> <<>>,
   FinalStageCount |-> 0,
   AttributeRecords |-> <<>>,  \* line 1998: [Name, Fields], Fields the field types
   OrigVarDecl |-> "",      \* VarDecl *OrigVarDecl = nullptr (line 2007)
   ReplacedAssigns |-> {},  \* line 2008: [old, at, new], new replaces old in stage at
   news |-> 0,          \* nodes allocated so far: the identity of a statement
   reports |-> {},
   ub |-> FALSE]        \* an access through a null or wild pointer happened

\* a statement of a stage: the node and its identity
StmtNode(id, e) == [id |-> id, e |-> e]
IsDeclStmt(e) == e.k = "DeclStmt"

\* lines 2217-2237
addStageStmt(b, S, Stage, OrigDecl) ==
  IF Stage \notin StageIndex THEN [b EXCEPT !.ub = TRUE]
  ELSE LET L == b.StageStmts[Stage]
           decls == {j \in 1..Len(L.Stmts) :
                       IsDeclStmt(L.Stmts[j].e) /\ L.StmtDeclRefCount[j][2] = OrigDecl}
           j0 == CHOOSE j \in decls : \A h \in decls : j <= h
       IN IF IsDeclStmt(S.e) /\ decls # {}
          THEN [b EXCEPT !.StageStmts[Stage].StmtDeclRefCount[j0][1] = @ + 1]
          ELSE IF ~IsDeclStmt(S.e) /\ \E j \in 1..Len(L.Stmts) : L.Stmts[j].id = S.id
          THEN b
          ELSE [b EXCEPT !.StageStmts[Stage].Stmts = Append(@, S),
                         !.StageStmts[Stage].StmtDeclRefCount =
                            Append(@, <<1, OrigDecl>>)]

\* a new BinaryOperator(LHS, RHS, BO_Assign)
AssignExpr(LHS, RHS) == Ex("BinaryOperator", "=", <<LHS, RHS>>)

\* the record D of array arr as a field request r left it
withRecord(b, arr, D, r) == [b EXCEPT ![arr][D] = r.rec, !.ub = @ \/ r.ub]

\* lines 2103-2110 and 2116-2120: when the producer reference p is not null,
\* the assignment of RHS to it becomes a statement of stage S
addProducerAssign(b, p, RHS, S) ==
  IF p.e = NullExpr THEN b
  ELSE addStageStmt([b EXCEPT !.news = @ + 1],
                    StmtNode(b.news + 1, AssignExpr(p.e, RHS)), S, "")

\* lines 2107-2109: the relay of stage S reads the field c of its own record
addRelayAssign(b, p, S, c) ==
  addProducerAssign(withRecord(b, "InterStageRecords", S, c), p, c.e, S)

\* the body of the loop of lines 2097-2113, p the producer reference of D
InterStageStep(b, E, From, D, S, p) ==
  IF p.e = NullExpr \/ S = From
  THEN addProducerAssign(withRecord(b, "InterStageRecords", D, p), p, E, S)
  ELSE addRelayAssign(withRecord(b, "InterStageRecords", D, p), p, S,
         createConsumerFieldReference(
           withRecord(b, "InterStageRecords", D, p).InterStageRecords[S],
           "InterStageRecords", S, E))

\* the loop of lines 2097-2113
RECURSIVE InterStageLoop(_, _, _, _, _, _)
InterStageLoop(b, E, From, To, D, S) ==
  IF D > To THEN b
  ELSE IF D \in b.UseStages
  THEN InterStageLoop(
         InterStageStep(b, E, From, D, S,
           createProducerFieldReference(b.InterStageRecords[D],
                                        "InterStageRecords", D, E)),
         E, From, To, D + 1, D)
  ELSE InterStageLoop(b, E, From, To, D + 1, S)

\* lines 2114 and 2121-2122: the reference the visit returns
consumerReference(b, arr, To, c) == [e |-> c.e, b |-> withRecord(b, arr, To, c)]
createConsumerReference(b, arr, To, E) ==
  consumerReference(b, arr, To, createConsumerFieldReference(b[arr][To], arr, To, E))

\* lines 2116-2120
HostProducer(b, E, From, To, p) ==
  addProducerAssign(withRecord(b, "HostToStageRecords", To, p), p, E, From)

\* a visit that hands the expression back whatever the stages
BuilderVisitExprOriginal(b, E, From, To) == [e |-> E, b |-> b]

\* a visit without the test From == To of line 2093
BuilderVisitExprAlwaysField(b, E, From, To) ==
  IF From = HshNoStage \/ To = HshNoStage THEN [e |-> E, b |-> b]
  ELSE createConsumerReference(
         b, IF From = HshHostStage THEN "HostToStageRecords" ELSE "InterStageRecords",
         To, E)

\* StagesBuilder::VisitExpr, lines 2092-2125
BuilderVisitExpr(b, E, From, To) ==
  IF From = To \/ From = HshNoStage \/ To = HshNoStage THEN [e |-> E, b |-> b]
  ELSE IF From # HshHostStage
  THEN createConsumerReference(InterStageLoop(b, E, From, To, From + 1, From),
                               "InterStageRecords", To, E)
  ELSE createConsumerReference(
         HostProducer(b, E, From, To,
           createProducerFieldReference(b.HostToStageRecords[To],
                                        "HostToStageRecords", To, E)),
         "HostToStageRecords", To, E)

\* StagesBuilder::Visit: the visitor's dispatch on the node class, with
\* VisitCXXConstructExpr (lines 2131-2142) and DoVisitExprRange (2008-2014)
RECURSIVE BuilderVisit(_, _, _, _)
RECURSIVE BuilderDoVisitExprRange(_, _, _, _, _, _)
BuilderDoVisitExprRange(b, Range, From, To, k, Res) ==
  IF k > Len(Range) THEN [Exprs |-> Res, b |-> b]
  ELSE LET v == BuilderVisit(b, Range[k], From, To)
       IN BuilderDoVisitExprRange(v.b, Range, From, To, k + 1, Append(Res, v.e))

BuilderVisit(b, E, From, To) ==
  IF E.k = "CXXConstructExpr"
  THEN LET Arguments == BuilderDoVisitExprRange(b, E.a, From, To, 1, <<>>)
       IN [e |-> Ex("CXXConstructExpr", E.n, Arguments.Exprs), b |-> Arguments.b]
  ELSE BuilderVisitExpr(b, E, From, To)

\* lines 2211-2215
createInterStageReferenceExpr(b, E, From, To) == BuilderVisit(b, E, From, To)

\* lines 2322-2327
registerUsedCapture(b, PVD) ==
  IF \E j \in 1..Len(b.UsedCaptures) : b.UsedCaptures[j] = PVD THEN b
  ELSE [b EXCEPT !.UsedCaptures = Append(@, PVD)]

\* getTextureIndex, lines 2258-2281: the stage of a texture parameter
TextureAttrStage(PVD) ==
  IF PVD.n = "vtex" THEN HshVertexStage
  ELSE IF PVD.n = "ftex" THEN HshFragmentStage ELSE HshNoStage

\* enum HshSamplerFilterMode, enum HshSamplerWrapMode (lines 1198-1205)
HSF_Linear == 0
HSF_Nearest == 1
HSW_Repeat == 0
HSW_Clamp == 1

\* SamplerConfig(const APValue &), lines 1206-1227: the two integer fields of
\* the evaluated structure; two configurations are equal when both fields are
SamplerConfig(Filter, Wrap) == ToString(Filter) \o "/" \o ToString(Wrap)

\* a registration that leaves the usage mask of a record it finds as it is
\* (without line 2312)
registerSampleCallNoMask(b, C) ==
  LET PVD == C.a[1]
      TexStage == TextureAttrStage(PVD)
      found == {j \in 1..Len(b.Samplers) : b.Samplers[j].Config = C.n}
      Index == IF found = {} THEN Len(b.Samplers)
               ELSE (CHOOSE j \in found : \A h \in found : j <= h) - 1
  IN IF \E j \in 1..Len(b.SampleCalls[TexStage]) :
          b.SampleCalls[TexStage][j].Expr = C
     THEN b
     ELSE IF C.n \in {"nonconstexpr", "badstruct"}
     THEN [b EXCEPT !.reports = @ \cup {"E:BadSampler"}]
     ELSE IF found = {} /\ Len(b.Samplers) = HSH_MAX_SAMPLERS
     THEN [b EXCEPT !.reports = @ \cup {"E:SamplerOverflow"}]
     ELSE [b EXCEPT !.Samplers = IF found = {}
                                 THEN Append(@, [Config |-> C.n, UseStages |-> {TexStage}])
                                 ELSE @,
                    !.SampleCalls[TexStage] =
                       Append(@, [Expr |-> C, Index |-> PVD.i, SamplerIndex |-> Index])]

\* a registration without the limit of lines 2306-2309
registerSampleCallNoLimit(b, C) ==
  LET PVD == C.a[1]
      TexStage == TextureAttrStage(PVD)
      found == {j \in 1..Len(b.Samplers) : b.Samplers[j].Config = C.n}
      Search == CHOOSE j \in found : \A h \in found : j <= h
  IN IF \E j \in 1..Len(b.SampleCalls[TexStage]) :
          b.SampleCalls[TexStage][j].Expr = C
     THEN b
     ELSE IF C.n \in {"nonconstexpr", "badstruct"}
     THEN [b EXCEPT !.reports = @ \cup {"E:BadSampler"}]
     ELSE IF found = {}
     THEN [b EXCEPT !.Samplers = Append(@, [Config |-> C.n, UseStages |-> {TexStage}]),
                    !.SampleCalls[TexStage] =
                       Append(@, [Expr |-> C, Index |-> PVD.i,
                                  SamplerIndex |-> Len(b.Samplers)])]
     ELSE [b EXCEPT !.Samplers[Search].UseStages = @ \cup {TexStage},
                    !.SampleCalls[TexStage] =
                       Append(@, [Expr |-> C, Index |-> PVD.i,
                                  SamplerIndex |-> Search - 1])]

\* lines 2283-2320; the sampler argument is named by the configuration it
\* evaluates to
registerSampleCall(b, C) ==
  LET PVD == C.a[1]
      TexStage == TextureAttrStage(PVD)
      Sampler == C.n
      found == {j \in 1..Len(b.Samplers) : b.Samplers[j].Config = Sampler}
      Search == CHOOSE j \in found : \A h \in found : j <= h
  IN IF PVD.k # "DeclRefExpr" THEN b
     ELSE IF TexStage \notin StageIndex THEN [b EXCEPT !.ub = TRUE]
     ELSE IF \E j \in 1..Len(b.SampleCalls[TexStage]) :
                b.SampleCalls[TexStage][j].Expr = C
     THEN b
     ELSE IF Sampler = "nonconstexpr"
     THEN [b EXCEPT !.reports = @ \cup {"E:NonConstexprSampler"}]
     ELSE IF Sampler = "badstruct"
     THEN [b EXCEPT !.reports = @ \cup {"E:BadSamplerStructFormat"}]
     ELSE IF found = {} /\ Len(b.Samplers) = HSH_MAX_SAMPLERS
     THEN [b EXCEPT !.reports = @ \cup {"E:SamplerOverflow"}]
     ELSE IF found = {}
     THEN [b EXCEPT !.Samplers = Append(@, [Config |-> Sampler, UseStages |-> {TexStage}]),
                    !.SampleCalls[TexStage] =
                       Append(@, [Expr |-> C, Index |-> PVD.i,
                                  SamplerIndex |-> Len(b.Samplers)])]
     ELSE [b EXCEPT !.Samplers[Search].UseStages = @ \cup {TexStage},
                    !.SampleCalls[TexStage] =
                       Append(@, [Expr |-> C, Index |-> PVD.i,
                                  SamplerIndex |-> Search - 1])]

(***************************************************************************)
(* LastAssignmentFinder (lines 1043-1190).  A statement is a node whose d   *)
(* tells it from the other statements of the body; a visit carries the     *)
(* members of the finder and what the visit method returns (ret).          *)
(***************************************************************************)
isAssignmentOp(op) == op \in {"=", "+=", "-=", "*=", "/="}

\* the finder as Find finds it (members default-initialised)
LastAssignmentFinder ==
  [Assign |-> NullExpr, LastAssign |-> NullExpr, CompoundChild |-> NullExpr,
   LastCompoundChild |-> NullExpr, reports |-> {}, ret |-> TRUE]

\* lines 1059-1062
UpdateLastAssign(f, S) ==
  [f EXCEPT !.LastAssign = S, !.LastCompoundChild = f.CompoundChild, !.ret = TRUE]

RECURSIVE FinderDoVisit(_, _, _, _)
RECURSIVE FinderVisitRest(_, _, _, _, _, _)

\* the loops of VisitCompoundStmt (1072-1079; child: CompoundChild is set),
\* VisitCallExpr, VisitCXXConstructExpr and VisitInitListExpr
RECURSIVE FinderVisitEach(_, _, _, _, _, _)
FinderVisitEach(f, Stmts, k, child, Var, End) ==
  IF k > Len(Stmts) THEN [f EXCEPT !.ret = TRUE]
  ELSE FinderVisitRest(
         FinderDoVisit(IF child THEN [f EXCEPT !.CompoundChild = Stmts[k]] ELSE f,
                       Stmts[k], Var, End),
         Stmts, k, child, Var, End)

\* the rest of a loop after the visit of one child returned
FinderVisitRest(f, Stmts, k, child, Var, End) ==
  IF ~f.ret THEN f ELSE FinderVisitEach(f, Stmts, k + 1, child, Var, End)

\* the second operand of an assignment, visited with Assign restored (the
\* SaveAndRestore of lines 1102-1106 and 1146-1150)
FinderVisitRHS(f, Saved, RHS, Var, End) ==
  IF ~f.ret THEN [f EXCEPT !.Assign = Saved]
  ELSE FinderDoVisit([f EXCEPT !.Assign = Saved], RHS, Var, End)

\* VisitBinaryOperator (1099-1116) and VisitCXXOperatorCallExpr (1144-1159)
FinderVisitOperator(f, Op, Var, End) ==
  IF isAssignmentOp(Op.n) /\ Len(Op.a) >= 1
  THEN FinderVisitRHS(FinderDoVisit([f EXCEPT !.Assign = Op], Op.a[1], Var, End),
                      f.Assign, Op.a[2], Var, End)
  ELSE FinderVisitEach(f, Op.a, 1, FALSE, Var, End)

\* StmtVisitor::Visit: the visit method of the node class
FinderVisit(f, S, Var, End) ==
  CASE S.k = "CompoundStmt" -> FinderVisitEach(f, S.a, 1, TRUE, Var, End)
    [] S.k = "DeclStmt" ->                          \* lines 1081-1093
         IF S.a = <<>> THEN [f EXCEPT !.ret = TRUE]
         ELSE IF S.n = Var THEN UpdateLastAssign(f, S)
         ELSE FinderDoVisit(f, S.a[1], Var, End)
    [] S.k \in {"NullStmt", "FloatingLiteral", "IntegerLiteral"} ->
         [f EXCEPT !.ret = TRUE]
    [] S.k \in {"BinaryOperator", "CXXOperatorCallExpr"} ->
         FinderVisitOperator(f, S, Var, End)
    [] S.k \in {"UnaryOperator", "MemberExpr"} -> FinderDoVisit(f, S.a[1], Var, End)
    [] S.k \in {"CallExpr", "CXXConstructExpr", "InitListExpr"} ->
         FinderVisitEach(f, S.a, 1, FALSE, Var, End)
    [] S.k = "DeclRefExpr" ->                       \* lines 1161-1165
         IF f.Assign # NullExpr /\ S.n = Var THEN UpdateLastAssign(f, f.Assign)
         ELSE [f EXCEPT !.ret = TRUE]
    [] OTHER ->                                     \* VisitStmt, VisitExpr
         [f EXCEPT !.reports = @ \cup {"E:UnsupportedStmt"}, !.ret = TRUE]

\* IgnoreParenCasts
RECURSIVE IgnoreParenCasts(_)
IgnoreParenCasts(E) ==
  IF E.k \in {"ParenExpr", "ImplicitCastExpr"} THEN IgnoreParenCasts(E.a[1]) ELSE E

\* a finder that walks on past the stop point
FinderDoVisitNoEnd(f, S, Var, End) == FinderVisit(f, IgnoreParenCasts(S), Var, End)

\* lines 1051-1058
FinderDoVisit(f, S, Var, End) ==
  IF End # NullExpr /\ S = End THEN [f EXCEPT !.ret = FALSE]
  ELSE FinderVisit(f, IgnoreParenCasts(S), Var, End)

\* Find, lines 1183-1188
Find(V, FnBody, E) == FinderDoVisit(LastAssignmentFinder, FnBody, V, E)

(***************************************************************************)
(* ValueTracer.  A visit returns the rebuilt node (NullExpr: the error     *)
(* result), its stage and the builder as the visit leaves it; ops and      *)
(* proms are observations: the stage decision taken at every binary        *)
(* operation and every promotion asked of the builder.                     *)
(***************************************************************************)
GetInterpolated(Stage, Target) == Stage # HshHostStage /\ Stage < Target

StmtResult(stmt, stage, b, ops, proms) ==
  [stmt |-> stmt, stage |-> stage, b |-> b, ops |-> ops, proms |-> proms]
ErrorResult(b, ops, proms) == StmtResult(NullExpr, HshNoStage, b, ops, proms)
OpNote(form, op, L, R, Stage, T) ==
  [form |-> form, op |-> op, L |-> L, R |-> R, Stage |-> Stage, T |-> T]
PromNote(E, From, To, res) == [E |-> E, From |-> From, To |-> To, res |-> res]

\* a tracer that looks at the dividend where line 2607 looks at the divisor
BinaryOperatorStageLHS(op, LHSInterpolated, RHSInterpolated, Stage, Target) ==
  IF ~(LHSInterpolated \/ RHSInterpolated) THEN Stage
  ELSE IF op \in {"+", "-", "*", "+=", "-=", "*=", "="} THEN Stage
  ELSE IF op \in {"/", "/="} THEN (IF LHSInterpolated THEN Target ELSE Stage)
  ELSE Target

\* the switch of VisitBinaryOperator, lines 2594-2615
\* a rule that sends every operation on an interpolated operand to the target
BinaryOperatorStageForced(op, LHSInterpolated, RHSInterpolated, Stage, Target) ==
  IF LHSInterpolated \/ RHSInterpolated THEN Target ELSE Stage

BinaryOperatorStage(op, LHSInterpolated, RHSInterpolated, Stage, Target) ==
  IF ~(LHSInterpolated \/ RHSInterpolated) THEN Stage
  ELSE IF op \in {"+", "-", "*", "+=", "-=", "*=", "="} THEN Stage
  ELSE IF op \in {"/", "/="} THEN (IF RHSInterpolated THEN Target ELSE Stage)
  ELSE Target

\* the switch of VisitCXXOperatorCallExpr, lines 2743-2766
OperatorCallStage(op, LHSInterpolated, RHSInterpolated, Stage, Target) ==
  IF ~(LHSInterpolated \/ RHSInterpolated) THEN Stage
  ELSE IF op \in {"+", "-", "*", "+=", "-=", "*=", "="} THEN Stage
  ELSE IF op \in {"/", "/="} THEN (IF RHSInterpolated THEN Target ELSE Stage)
  ELSE Target

\* the promotions a visit asks of the builder (createInterStageReferenceExpr):
\* the builder, the references made so far, and the observations
Promotions(b, proms) == [b |-> b, Exprs |-> <<>>, proms |-> proms]
promoted(acc, E, From, To, v) ==
  [b |-> v.b, Exprs |-> Append(acc.Exprs, v.e),
   proms |-> acc.proms \cup {PromNote(E, From, To, v.e)}]
promote(acc, E, From, To) ==
  promoted(acc, E, From, To, createInterStageReferenceExpr(acc.b, E, From, To))

\* the node a visit rebuilds from its promoted children
PromotedResult(form, n, Stage, ops, P) ==
  StmtResult(Ex(form, n, P.Exprs), Stage, P.b, ops, P.proms)

\* DoPromoteExprRange, lines 2497-2504
RECURSIVE DoPromoteExprRange(_, _, _, _, _)
DoPromoteExprRange(acc, Exprs, ExprStages, Stage, k) ==
  IF k > Len(Exprs) THEN acc
  ELSE DoPromoteExprRange(promote(acc, Exprs[k], ExprStages[k], Stage),
                          Exprs, ExprStages, Stage, k + 1)

\* ValueTracer::Visit: the visitor's dispatch on the node class
RECURSIVE TracerVisit(_, _, _)

\* DoVisitExprRange, lines 2483-2495
RECURSIVE DoVisitExprRange(_, _, _, _, _)
DoVisitExprRange(b, Range, Target, k, Res) ==
  IF k > Len(Range) THEN [Res EXCEPT !.b = b]
  ELSE LET v == TracerVisit(b, Range[k], Target)
           Res1 == [Res EXCEPT !.ops = @ \cup v.ops, !.proms = @ \cup v.proms]
       IN IF v.stmt = NullExpr THEN [Res1 EXCEPT !.ok = FALSE, !.b = v.b]
          ELSE DoVisitExprRange(v.b, Range, Target, k + 1,
                 [Res1 EXCEPT !.Exprs = Append(@, v.stmt),
                              !.ExprStages = Append(@, v.stage),
                              !.Stage = Max(@, v.stage)])

VisitExprRangeResult ==
  [ok |-> TRUE, Stage |-> HshNoStage, Exprs |-> <<>>, ExprStages |-> <<>>,
   b |-> <<>>, ops |-> {}, proms |-> {}]

\* the argument lists of lines 2722-2735, 2738-2773 and 2808-2814: visit,
\* decide the stage, promote, rebuild
TracerVisitRange(b, E, Target, form) ==
  LET Arguments == DoVisitExprRange(b, E.a, Target, 1, VisitExprRangeResult)
      IsBinary == form = "CXXOperatorCallExpr" /\ Len(E.a) = 2
      Stage == IF IsBinary
               THEN OperatorCallStage(E.n,
                      GetInterpolated(Arguments.ExprStages[1], Target),
                      GetInterpolated(Arguments.ExprStages[2], Target),
                      Arguments.Stage, Target)
               ELSE Arguments.Stage
  IN IF ~Arguments.ok THEN ErrorResult(Arguments.b, Arguments.ops, Arguments.proms)
     ELSE PromotedResult(form, E.n, Stage,
            Arguments.ops \cup
              (IF IsBinary
               THEN {OpNote(form, E.n, Arguments.ExprStages[1],
                            Arguments.ExprStages[2], Stage, Target)}
               ELSE {}),
            DoPromoteExprRange(Promotions(Arguments.b, Arguments.proms),
                               Arguments.Exprs, Arguments.ExprStages, Stage, 1))

\* lines 2583-2624
VisitBinaryOperator(b, BinOp, Target) ==
  LET L == TracerVisit(b, BinOp.a[1], Target)
      R == TracerVisit(L.b, BinOp.a[2], Target)
      Stage == BinaryOperatorStage(BinOp.n, GetInterpolated(L.stage, Target),
                                   GetInterpolated(R.stage, Target),
                                   Max(L.stage, R.stage), Target)
  IN IF L.stmt = NullExpr THEN ErrorResult(L.b, L.ops, L.proms)
     ELSE IF R.stmt = NullExpr
     THEN ErrorResult(R.b, L.ops \cup R.ops, L.proms \cup R.proms)
     ELSE PromotedResult("BinaryOperator", BinOp.n, Stage,
            L.ops \cup R.ops \cup
              {OpNote("BinaryOperator", BinOp.n, L.stage, R.stage, Stage, Target)},
            promote(promote(Promotions(R.b, L.proms \cup R.proms),
                            L.stmt, L.stage, Stage),
                    R.stmt, R.stage, Stage))

\* BuiltinFunctionInterpDists (the InterpDist column of BuiltinFunctions.def)
\* and HshBuiltins::isInterpolationDistributed, lines 696-698
BuiltinFunctionInterpDists == [Func \in BuiltinFunctions |-> FALSE]
isInterpolationDistributed(Func) == BuiltinFunctionInterpDists[Func]

\* HshBuiltins::identifyBuiltinFunction: the catalog entry of a callee
HBF_None == "HBF_None"
identifyBuiltinFunction(FD) == IF FD \in BuiltinFunctions THEN FD ELSE HBF_None

\* lines 2641-2649: the stage of a call to a builtin function
CallExprStage(Func, ExprStages, Stage, Target) ==
  IF /\ Len(ExprStages) = 2
     /\ \/ GetInterpolated(ExprStages[1], Target)
        \/ GetInterpolated(ExprStages[2], Target)
     /\ ~isInterpolationDistributed(Func)
  THEN Target ELSE Stage

\* lines 2651-2655: the arguments promoted, the call rebuilt
CallExprResult(CallExpr, Arguments, Stage) ==
  PromotedResult("CallExpr", CallExpr.n, Stage, Arguments.ops,
    DoPromoteExprRange(Promotions(Arguments.b, Arguments.proms),
                       Arguments.Exprs, Arguments.ExprStages, Stage, 1))

\* lines 2637-2649, Arguments the visit of the arguments
VisitedCallExpr(CallExpr, Target, Arguments) ==
  IF ~Arguments.ok THEN ErrorResult(Arguments.b, Arguments.ops, Arguments.proms)
  ELSE CallExprResult(CallExpr, Arguments,
         CallExprStage(identifyBuiltinFunction(CallExpr.n), Arguments.ExprStages,
                       Arguments.Stage, Target))

\* lines 2631-2661
VisitCallExpr(b, CallExpr, Target) ==
  IF identifyBuiltinFunction(CallExpr.n) # HBF_None
  THEN VisitedCallExpr(CallExpr, Target,
         DoVisitExprRange(b, CallExpr.a, Target, 1, VisitExprRangeResult))
  ELSE ErrorResult([b EXCEPT !.reports = @ \cup {"E:UnsupportedFunctionCall"}], {}, {})

\* lines 2697-2703: the rebuilt call, registered with the builder
SampleCallResult(CallExpr, Stage, ops, P) ==
  LET NMCE == [Ex("CXXMemberCallExpr", CallExpr.n, <<CallExpr.a[1], P.Exprs[1]>>)
               EXCEPT !.d = P.b.news + 1]
  IN StmtResult(NMCE, Stage,
                registerSampleCall([P.b EXCEPT !.news = @ + 1], NMCE), ops, P.proms)

\* lines 2663-2707, case HBM_sample_texture2d
VisitSampleCall(b, CallExpr, Target) ==
  LET ObjArg == CallExpr.a[1]
      IsPVD == ObjArg.k = "DeclRefExpr"
      Stage == IF IsPVD THEN TextureAttrStage(ObjArg) ELSE HshNoStage
      b1 == IF ~IsPVD THEN [b EXCEPT !.reports = @ \cup {"E:BadTextureReference"}]
            ELSE IF Stage = HshNoStage
            THEN [b EXCEPT !.reports = @ \cup {"E:UnattributedTexture"}]
            ELSE b
      UV == TracerVisit(b1, CallExpr.a[2], Target)
  IN IF UV.stmt = NullExpr THEN ErrorResult(UV.b, UV.ops, UV.proms)
     ELSE SampleCallResult(CallExpr, Stage, UV.ops,
            promote(Promotions(UV.b, UV.proms), UV.stmt, UV.stage, Stage))

TracerVisit(b, E, Target) ==
  CASE E.k \in {"FloatingLiteral", "IntegerLiteral"} ->
         StmtResult(E, HshNoStage, b, {}, {})
    [] E.k = "DeclRefExpr" ->                       \* lines 2775-2786
         LET Stage == DetermineParmVarStage([role |-> E.n])
         IN StmtResult(E, Stage,
              IF Stage = HshHostStage THEN registerUsedCapture(b, E) ELSE b, {}, {})
    [] E.k = "MemberExpr" ->                        \* lines 2816-2828
         LET Base == TracerVisit(b, E.a[1], Target)
         IN [Base EXCEPT !.stmt = Ex("MemberExpr", E.n, <<Base.stmt>>)]
    [] E.k = "BinaryOperator" -> VisitBinaryOperator(b, E, Target)
    [] E.k \in {"CXXOperatorCallExpr", "CXXConstructExpr", "InitListExpr"} ->
         TracerVisitRange(b, E, Target, E.k)
    [] E.k = "CXXMemberCallExpr" -> VisitSampleCall(b, E, Target)
    [] E.k = "CallExpr" -> VisitCallExpr(b, E, Target)
    [] OTHER ->                                     \* VisitStmt, lines 2552-2555
         ErrorResult([b EXCEPT !.reports = @ \cup {"E:UnsupportedStmt"}], {}, {})

\* lines 2843-2847: the promoted assignment becomes a statement of stage T
AssignResult(T, v, P) ==
  StmtResult(P.Exprs[1], v.stage,
    addStageStmt([P.b EXCEPT !.news = @ + 1],
                 StmtNode(P.b.news + 1, P.Exprs[1]), T, ""),
    v.ops, P.proms)

\* lines 2840-2847, v the visit of the assignment
TraceResult(T, v) ==
  IF v.stmt = NullExpr THEN [v EXCEPT !.stage = T]
  ELSE AssignResult(T, v, promote(Promotions(v.b, v.proms), v.stmt, v.stage, T))

\* ValueTracer::Trace, lines 2838-2848
Trace(b, Assign, T) == TraceResult(T, TracerVisit(b, Assign, T))

\* InterfaceRecord::finalizeRecord
finalizeRecord(rec) == [rec EXCEPT !.Finalized = @ + 1]

\* the statements finalizeResults puts around the Host statements: kind is
\* "DeclStmt" (the binding variable of a stage, lines 2386-2395) or
\* "CallExpr" (its push, lines 2399-2403)
RECURSIVE HostStageStmts(_, _, _)
HostStageStmts(us, kind, S) ==
  IF S >= HshMaxStage THEN <<>>
  ELSE (IF S \in us THEN <<StmtNode(0, [Ex(kind, "HostToStageVar", <<>>) EXCEPT !.d = S])>>
        ELSE <<>>) \o HostStageStmts(us, kind, S + 1)

\* a finalizeResults that counts Host among the final stages
finalizeResultsCountingHost(b) ==
  [b EXCEPT !.FinalStageCount = Cardinality(b.UseStages)]

\* lines 2365-2414
finalizeResults(b) ==
  LET used == {D \in StageIndex : D >= HshVertexStage /\ D \in b.UseStages}
  IN [b EXCEPT
        !.FinalStageCount = Cardinality(used),
        !.HostToStageRecords =
           [D \in StageIndex |-> IF D \in used THEN finalizeRecord(@[D]) ELSE @[D]],
        !.InterStageRecords =
           [D \in StageIndex |-> IF D \in used /\ D >= HshControlStage
                                 THEN finalizeRecord(@[D]) ELSE @[D]],
        !.StageStmts[HshHostStage].Stmts =
           HostStageStmts(used, "DeclStmt", HshVertexStage) \o @ \o
           HostStageStmts(used, "CallExpr", HshVertexStage)]

(***************************************************************************)
(* The builder as a state machine.  One builder is constructed; then       *)
(* either promotions are asked of it one by one (SpecPromote) or the       *)
(* output assignments of a program are traced into it in stage order       *)
(* (SpecTrace); finalizeResults ends both.                                 *)
(***************************************************************************)
ParmRef(role, slot) == [Ex("DeclRefExpr", role, <<>>) EXCEPT !.i = slot]
FloatingLiteral(n) == Ex("FloatingLiteral", n, <<>>)
UXf == Ex("MemberExpr", "xf", <<ParmRef("uniform", 0)>>)
VPosition == Ex("MemberExpr", "position", <<ParmRef("vbuf", 0)>>)
VNormal == Ex("MemberExpr", "normal", <<ParmRef("vbuf", 0)>>)
One == FloatingLiteral("1.f")
Float4OfVPosition == Ex("CXXConstructExpr", "float4", <<VPosition, One>>)
FSample ==
  Ex("CXXMemberCallExpr", "Nearest",
     <<ParmRef("ftex", 0),
       Ex("InitListExpr", "", <<FloatingLiteral("0.f"), FloatingLiteral("0.f")>>)>>)

\* the values promotions are asked for, each with the stage the tracer gives it
Promotable ==
  {[E |-> UXf, From |-> HshHostStage], [E |-> VPosition, From |-> HshVertexStage],
   [E |-> VNormal, From |-> HshVertexStage], [E |-> One, From |-> HshNoStage],
   [E |-> Float4OfVPosition, From |-> HshVertexStage],
   [E |-> FSample, From |-> HshFragmentStage]}
PromoteTo ==
  {HshNoStage, HshHostStage, HshVertexStage, HshGeometryStage, HshFragmentStage}

\* the stage sets a builder is constructed with
BuilderMasks ==
  {{HshHostStage, HshVertexStage}, {HshHostStage, HshFragmentStage},
   {HshHostStage, HshVertexStage, HshFragmentStage},
   {HshHostStage, HshVertexStage, HshGeometryStage, HshFragmentStage}}
\* those of run(), lines 3125-3137: Host and the stage of every output
\* parameter
OutputParms == {"position", "color"}
UseStagesOf(outs) ==
  {HshHostStage} \cup {DetermineParmVarStage([role |-> r]) : r \in outs}
RunMasks == {UseStagesOf(outs) : outs \in SUBSET OutputParms}

\* the output assignments that are traced: the two of DrawSomething, and
\* divisions, in both forms, of operands of every stage
Assign(out, rhs) == Ex("CXXOperatorCallExpr", "=", <<ParmRef(out, 0), rhs>>)
PositionAssign ==
  Assign("position", Ex("CXXOperatorCallExpr", "*", <<UXf, Float4OfVPosition>>))
ColorAssign == Assign("color", FSample)
OperandPairs ==
  ({UXf, VPosition, One} \X {UXf, VPosition, One}) \cup
  {<<VPosition, FSample>>, <<FSample, VPosition>>}
Divisions ==
  {Ex(form, op, <<lr[1], lr[2]>>) :
     form \in {"BinaryOperator", "CXXOperatorCallExpr"}, op \in {"/", "/="},
     lr \in OperandPairs}
\* calls of builtin functions of one, two and three arguments, of Vertex
\* and Host values, and the call of DrawSomething to its own DoMultiply
ULightDir == Ex("MemberExpr", "lightdir", <<ParmRef("uniform", 0)>>)
Calls ==
  {Ex("CallExpr", "normalize3", <<a>>) : a \in {VNormal, ULightDir}} \cup
  {Ex("CallExpr", "dot3", <<a, c>>) : a \in {VNormal, ULightDir}, c \in {VNormal, ULightDir}} \cup
  {Ex("CallExpr", "clamp3", <<a, ULightDir, c>>) : a \in {VNormal, ULightDir},
                                                   c \in {VNormal, ULightDir}}
DoMultiplyCall == Ex("CallExpr", "DoMultiply", <<UXf, VPosition>>)
\* assignments with an expression error: a sample call on a member of a
\* parameter and one on a texture parameter without stage attribute, and a
\* product whose first operand is of an unsupported kind
SampleOn(tex) ==
  Ex("CXXMemberCallExpr", "Nearest",
     <<tex, Ex("InitListExpr", "", <<FloatingLiteral("0.f"), FloatingLiteral("0.f")>>)>>)
Unsupported == Ex("ConditionalOperator", "", <<One, One, One>>)
ErrorAssigns ==
  {Assign("color", SampleOn(UXf)), Assign("color", SampleOn(ParmRef("tex", 0))),
   Assign("color", Ex("CXXOperatorCallExpr", "*", <<Unsupported, FSample>>))}

\* sums, differences, products and assignments in both operator forms
ArithmeticOps == {"+", "-", "*", "+=", "-=", "*=", "="}
Arithmetic ==
  {Ex(form, op, <<lr[1], lr[2]>>) :
     form \in {"BinaryOperator", "CXXOperatorCallExpr"}, op \in ArithmeticOps,
     lr \in OperandPairs}

\* a vertex position that is read from a fragment texture
BackwardAssign == Assign("position", FSample)

Assigns ==
  ErrorAssigns \cup {Assign("color", x) : x \in Arithmetic} \cup
  {PositionAssign, ColorAssign, BackwardAssign,
   Assign("position", Ex("BinaryOperator", "/", <<VPosition, One>>)),
   Assign("position", Ex("CXXOperatorCallExpr", "/", <<One, UXf>>)),
   Assign("position", DoMultiplyCall)} \cup
  {Assign("color", d) : d \in Divisions \cup Calls}

NoOp(b) ==
  [kind |-> "none", E |-> NullExpr, From |-> HshNoStage, To |-> HshNoStage,
   res |-> NullExpr, stage |-> HshNoStage, before |-> b, ops |-> {}, proms |-> {},
   done |-> <<>>, Var |-> "", End |-> NullExpr, child |-> NullExpr, reports |-> {},
   locs |-> [GLSL |-> <<>>, HLSL |-> <<>>], stack |-> <<>>, finds |-> <<>>]

BuildIdle ==
  /\ B = StagesBuilder({HshHostStage})
  /\ bpc = "idle"
  /\ nops = 0
  /\ last = NoOp(B)

BuildInit(masks) ==
  /\ B \in {StagesBuilder(us) : us \in masks}
  /\ bpc = "building"
  /\ nops = 0
  /\ last = NoOp(B)

\* what becomes of the builder variables when an operation leaves builder b:
\* an access through a null or wild pointer lets the operation go on (ub =
\* "goes") or ends the process (ub = "crash")
Operated(b, ub, note) ==
  /\ (b.ub = B.ub) => ub = "goes"
  /\ nops' = nops + 1
  /\ IF ub = "crash"
     THEN bpc' = "crashed" /\ B' = B /\ last' = [note EXCEPT !.kind = "crash"]
     ELSE bpc' = bpc /\ B' = b /\ last' = note

Promoted(v, To, ub, r) ==
  Operated(r.b, ub,
    [NoOp(B) EXCEPT !.kind = "promote", !.E = v.E, !.From = v.From, !.To = To,
                    !.res = r.e, !.stage = v.From,
                    !.proms = {PromNote(v.E, v.From, To, r.e)}])

\* createInterStageReferenceExpr is asked for one value
Promote(v, To, ub) ==
  /\ bpc = "building"
  /\ nops < MaxOps
  /\ Promoted(v, To, ub, createInterStageReferenceExpr(B, v.E, v.From, To))
  /\ UNCHANGED runVars

Traced(A, T, ub, r) ==
  Operated(r.b, ub,
    [NoOp(B) EXCEPT !.kind = "trace", !.E = A, !.To = T, !.res = r.stmt,
                    !.stage = r.stage, !.ops = r.ops, !.proms = r.proms,
                    !.done = Append(last.done, A)])

\* one iteration of the trace loop of run() (lines 3190-3203) that finds an
\* assignment: the last one of an output parameter not traced yet
TraceOutput(A, ub) ==
  /\ bpc = "building"
  /\ nops < MaxTraces
  /\ LET T == DetermineParmVarStage([role |-> A.a[1].n])
     IN /\ T \in B.UseStages
        /\ T >= last.To
        /\ \A j \in DOMAIN last.done : last.done[j].a[1] # A.a[1]
        /\ Traced(A, T, ub, Trace(B, A, T))
  /\ UNCHANGED runVars

\* a call site tex.sample(coords, sampler): site tells the call expressions
\* of one body apart
SampleCallSite(site, tex, Sampler) ==
  [Ex("CXXMemberCallExpr", Sampler,
      <<tex, Ex("InitListExpr", "", <<FloatingLiteral("0.f"), FloatingLiteral("0.f")>>)>>)
   EXCEPT !.d = site]

\* the sample calls registered while a body is traced: on a vertex and on a
\* fragment texture, with two configurations, a sampler that is not a
\* constant expression and one of a wrong structure; one configuration has
\* a second call site on the fragment texture
SampleSites ==
  LET Textures == <<ParmRef("vtex", 0), ParmRef("ftex", 0)>>
      SamplerArgs == <<SamplerConfig(HSF_Linear, HSW_Clamp),
                       SamplerConfig(HSF_Nearest, HSW_Clamp),
                       "nonconstexpr", "badstruct">>
  IN {SampleCallSite(4 * t + c, Textures[t], SamplerArgs[c]) : t \in 1..2, c \in 1..4}
     \cup {SampleCallSite(0, Textures[2], SamplerArgs[1])}

\* the builder after the first k sample calls of a body, each on the fragment
\* texture and each with a configuration of its own
RECURSIVE RegisterSamplers(_, _)
RegisterSamplers(b, k) ==
  IF k = 0 THEN b
  ELSE LET before == RegisterSamplers(b, k - 1)
       IN IF before.ub THEN before
          ELSE registerSampleCall(before,
                 SampleCallSite(100 + k, ParmRef("ftex", 0),
                                SamplerConfig(k - 1, HSW_Repeat)))

\* how many sample calls the body has before the ones observed
SampleCallsBefore == {0, HSH_MAX_SAMPLERS - 1, HSH_MAX_SAMPLERS}

SampleInit ==
  /\ B \in {RegisterSamplers(StagesBuilder({HshHostStage, HshVertexStage,
                                             HshFragmentStage}), k) :
              k \in SampleCallsBefore}
  /\ bpc = "building"
  /\ nops = 0
  /\ last = NoOp(B)

\* the tracer meets a sample call (line 2678) and registers it
RegisterSample(C) ==
  /\ bpc = "building"
  /\ nops < MaxSamples
  /\ Operated(registerSampleCall(B, C), "goes",
              [NoOp(B) EXCEPT !.kind = "sample", !.E = C,
                              !.stage = TextureAttrStage(C.a[1])])
  /\ UNCHANGED runVars

\* ---- function bodies for the finder ----
\* statement S as the id-th statement of a body
Stmt(id, S) == [S EXCEPT !.d = id]
LocalRef(V) == Ex("DeclRefExpr", V, <<>>)
DeclStmt(V, Inits) == Ex("DeclStmt", V, Inits)
AssignOp(form, op, LHS, RHS) == Ex(form, op, <<LHS, RHS>>)
XAssign == AssignOp("BinaryOperator", "=", LocalRef("x"), One)

\* the statements a body is made of: declarations with and without
\* initializer, plain, compound and member assignments in both operator
\* forms, an assignment of another variable, a nested block, the conditional
\* statement and conditional expression of DrawSomethingTemplated, a loop,
\* an early exit and the empty statement.  Statements inside a statement id
\* are numbered 10 * id + 1, ...
BodyStmts(id) ==
  {Stmt(id, S) : S \in
     {DeclStmt("x", <<One>>), DeclStmt("x", <<>>), DeclStmt("y", <<LocalRef("x")>>),
      XAssign,
      AssignOp("CXXOperatorCallExpr", "+=", LocalRef("x"), LocalRef("y")),
      AssignOp("CXXOperatorCallExpr", "=", LocalRef("y"), LocalRef("x")),
      AssignOp("BinaryOperator", "=", Ex("MemberExpr", "w", <<LocalRef("x")>>), One),
      Ex("CompoundStmt", "", <<Stmt(10 * id + 1, XAssign)>>),
      Ex("IfStmt", "", <<LocalRef("c"),
                         Ex("CompoundStmt", "", <<Stmt(10 * id + 1, XAssign)>>)>>),
      AssignOp("BinaryOperator", "=", LocalRef("y"),
               Ex("ConditionalOperator", "", <<LocalRef("c"), XAssign, One>>)),
      Ex("ForStmt", "", <<Ex("CompoundStmt", "", <<Stmt(10 * id + 1, XAssign)>>)>>),
      Ex("ReturnStmt", "", <<>>),
      Ex("NullStmt", "", <<>>)}}

\* the statement that refers to the variable: out = x
OutAssign(id) ==
  Stmt(id, AssignOp("CXXOperatorCallExpr", "=", ParmRef("color", 0), LocalRef("x")))

\* bodies: two statements, the statement with the reference, one statement
\* after it; the last three either in the body itself or in a block of it
FnBodies ==
  {Ex("CompoundStmt", "", <<s1, s2, OutAssign(3), s4>>) :
     s1 \in BodyStmts(1), s2 \in BodyStmts(2), s4 \in {Stmt(4, XAssign)}} \cup
  {Ex("CompoundStmt", "",
      <<s1, Stmt(2, Ex("CompoundStmt", "", <<s2, OutAssign(22), Stmt(23, XAssign)>>))>>) :
     s1 \in BodyStmts(1), s2 \in BodyStmts(21)}

\* the children of the blocks of a statement (the values CompoundChild takes)
RECURSIVE CompoundChildren(_)
CompoundChildren(S) ==
  IF S.k # "CompoundStmt" THEN {}
  ELSE {S.a[k] : k \in 1..Len(S.a)} \cup
       UNION {CompoundChildren(S.a[k]) : k \in 1..Len(S.a)}

FindInit ==
  /\ B = StagesBuilder({HshHostStage, HshVertexStage, HshFragmentStage})
  /\ bpc = "building"
  /\ nops = 0
  /\ last \in {[NoOp(B) EXCEPT !.kind = "body", !.E = FnBody] : FnBody \in FnBodies}

\* what Find returned for variable V and stop point End
Found(V, End, f) ==
  /\ last' = [last EXCEPT !.kind = "find", !.Var = V, !.End = End,
                          !.res = f.LastAssign, !.child = f.LastCompoundChild,
                          !.reports = f.reports, !.before = B]
  /\ B' = [B EXCEPT !.reports = @ \cup f.reports]

\* LastAssignmentFinder(Context).Find(VD, Body, LastCompoundChild), lines
\* 2151, 2791 and 3196
FindLastAssignment(V, End) ==
  /\ bpc = "building"
  /\ last.kind \in {"body", "find"}
  /\ End \in {NullExpr} \cup CompoundChildren(last.E)
  /\ Found(V, End, Find(V, last.E, End))
  /\ UNCHANGED <<bpc, nops, runVars>>

(***************************************************************************)
(* Local variables: the copy of a declaration the tracer puts in the stage *)
(* of its initializer, and the lift of that copy to the stage that refers  *)
(* to the variable.                                                        *)
(***************************************************************************)
\* lines 2242-2255: the reference taken from the origin stage, added the
\* builder after line 2241
liftFrom(added, From, OrigDecl) ==
  IF added.ub \/ From \notin StageIndex THEN [added EXCEPT !.ub = TRUE]
  ELSE LET L == added.StageStmts[From]
           decls == {j \in 1..Len(L.Stmts) :
                       IsDeclStmt(L.Stmts[j].e) /\ L.StmtDeclRefCount[j][2] = OrigDecl}
           j0 == CHOOSE j \in decls : \A h \in decls : j <= h
           erase(seq) == [j \in 1..(Len(seq) - 1) |->
                            IF j < j0 THEN seq[j] ELSE seq[j + 1]]
       IN IF decls = {} THEN added
          ELSE IF L.StmtDeclRefCount[j0][1] - 1 = 0     \* a count is never 0
          THEN [added EXCEPT !.StageStmts[From].Stmts = erase(@),
                             !.StageStmts[From].StmtDeclRefCount = erase(@)]
          ELSE [added EXCEPT !.StageStmts[From].StmtDeclRefCount[j0][1] = @ - 1]

\* a lift that erases the statement of the origin stage and leaves its count
liftDeclStmtKeepCount(b, DS, From, To, OrigDecl) ==
  LET added == addStageStmt(b, DS, To, OrigDecl)
      lifted == liftFrom(added, From, OrigDecl)
  IN IF From \in StageIndex /\ ~lifted.ub
     THEN [lifted EXCEPT !.StageStmts[From].StmtDeclRefCount =
                            added.StageStmts[From].StmtDeclRefCount]
     ELSE lifted

\* lines 2239-2256
liftDeclStmt(b, DS, From, To, OrigDecl) ==
  liftFrom(addStageStmt(b, DS, To, OrigDecl), From, OrigDecl)

\* lines 2144-2147
registerReplacedAssign(b, OldAssign, NewAssign, From) ==
  IF From \notin StageIndex THEN [b EXCEPT !.ub = TRUE]
  ELSE [b EXCEPT !.ReplacedAssigns =
          {r \in @ : ~(r.old = OldAssign /\ r.at = From)} \cup
          {[old |-> OldAssign, at |-> From, new |-> NewAssign]}]

\* the local variables of the body below; a DeclRefExpr of another name
\* refers to a parameter (a ParmVarDecl)
LocalVars == {"a", "b", "c", "d"}
IsLocalRef(E) == E.k = "DeclRefExpr" /\ E.n \in LocalVars

\* the copy NDS of a declaration: node id declares a copy of the variable
\* with the initializer Inits
NewDeclStmt(id, V, Inits) == [DeclStmt(V, Inits) EXCEPT !.d = id]
\* DeclRefExpr::Create(..., NVD, ...): a reference to the variable of copy id
NewDeclRef(id, V) == [LocalRef(V) EXCEPT !.d = id]

RECURSIVE TracerVisitLocal(_, _, _, _, _)

\* lines 2571-2574: the copy NDS with the traced initializer Init
TracerCopyDecl(DS, Init) ==
  IF Init.stmt = NullExpr THEN Init
  ELSE StmtResult(NewDeclStmt(Init.b.news + 1, DS.n, <<Init.stmt>>), Init.stage,
         registerReplacedAssign([Init.b EXCEPT !.news = @ + 1], DS,
                                NewDeclStmt(Init.b.news + 1, DS.n, <<Init.stmt>>),
                                Init.stage),
         Init.ops, Init.proms)

\* ValueTracer::VisitDeclStmt, lines 2557-2578 (SelectedVarDecl is the
\* variable DS declares: VisitDeclRefExpr set it before the visit)
TracerVisitDeclStmt(b, DS, FnBody, LCC, Target) ==
  IF DS.a = <<>>
  THEN StmtResult(NewDeclStmt(b.news + 1, DS.n, <<>>), HshNoStage,
         registerReplacedAssign([b EXCEPT !.news = @ + 1], DS,
                                NewDeclStmt(b.news + 1, DS.n, <<>>), HshNoStage),
         {}, {})
  ELSE TracerCopyDecl(DS, IF IsLocalRef(DS.a[1])
                          THEN TracerVisitLocal(b, DS.a[1], FnBody, LCC, Target)
                          ELSE TracerVisit(b, DS.a[1], Target))

\* lines 2798-2802: the traced assignment v becomes a statement of its stage
TracerAddAssign(DeclRef, v) ==
  IF v.stmt = NullExpr THEN v
  ELSE [v EXCEPT !.stmt = DeclRef,
                 !.b = addStageStmt(v.b, StmtNode(v.stmt.d, v.stmt), v.stage,
                                    DeclRef.n)]

\* lines 2793-2803, f the finder after Find
TracerVisitFound(b, DeclRef, f, FnBody, Target) ==
  IF f.LastAssign = NullExpr THEN ErrorResult(b, {}, {})
  ELSE TracerAddAssign(DeclRef,
         IF f.LastAssign.k = "DeclStmt"
         THEN TracerVisitDeclStmt(b, f.LastAssign, FnBody, f.LastCompoundChild, Target)
         ELSE TracerVisit(b, f.LastAssign, Target))

\* ValueTracer::VisitDeclRefExpr for a local variable, lines 2791-2804
TracerVisitLocal(b, DeclRef, FnBody, LCC, Target) ==
  TracerVisitFound(b, DeclRef, Find(DeclRef.n, FnBody, LCC), FnBody, Target)

\* lines 2153-2160: Assign is the last assignment Ret found or the statement
\* that replaced it in stage From
ReplacedOf(b, From, Ret) ==
  LET Search == {r \in b.ReplacedAssigns : r.old = Ret.LastAssign /\ r.at = From}
  IN [Assign |-> IF Search # {} THEN (CHOOSE r \in Search : TRUE).new
                 ELSE Ret.LastAssign,
      NextCompoundChild |-> Ret.LastCompoundChild,
      ub |-> Ret.LastAssign \in {r.old : r \in b.ReplacedAssigns} /\
             From \notin StageIndex]

\* StagesBuilder::findLastAssignment, lines 2149-2161
findLastAssignment(b, VD, From, FnBody, LCC) ==
  ReplacedOf(b, From, Find(VD, FnBody, LCC))

RECURSIVE BuilderVisitDeclRefExpr(_, _, _, _, _, _)

\* StagesBuilder::VisitDeclStmt, lines 2185-2205: the initializer is visited,
\* then the copy is lifted under the variable OrigVarDecl names by then
BuilderLiftDeclStmt(b, DS, NDS, From, To) ==
  [e |-> NewDeclRef(NDS.d, DS.n),
   b |-> liftDeclStmt(registerReplacedAssign(b, DS, NDS, To),
                      StmtNode(NDS.d, NDS), From, To, b.OrigVarDecl)]
BuilderVisitInit(b, DS, From, To, Init) ==
  BuilderLiftDeclStmt([Init.b EXCEPT !.news = @ + 1], DS,
                      NewDeclStmt(Init.b.news + 1, DS.n, <<Init.e>>), From, To)
BuilderVisitDeclStmt(b, DS, From, To, FnBody, LCC) ==
  IF DS.a = <<>>
  THEN BuilderLiftDeclStmt([b EXCEPT !.news = @ + 1], DS,
                           NewDeclStmt(b.news + 1, DS.n, <<>>), From, To)
  ELSE BuilderVisitInit(b, DS, From, To,
         IF IsLocalRef(DS.a[1])
         THEN BuilderVisitDeclRefExpr(b, DS.a[1], From, To, FnBody, LCC)
         ELSE BuilderVisit(b, DS.a[1], From, To))

\* StagesBuilder::VisitDeclRefExpr for a local variable, lines 2167-2183:
\* llvm_unreachable when no assignment is found, as for the variable of a
\* copy (DeclRef.d # 0), which no statement of the body declares or assigns
BuilderVisitAssign(b, r, From, To, FnBody) ==
  IF r.ub \/ r.Assign = NullExpr THEN [e |-> NullExpr, b |-> [b EXCEPT !.ub = TRUE]]
  ELSE IF r.Assign.k = "DeclStmt"
  THEN BuilderVisitDeclStmt(b, r.Assign, From, To, FnBody, r.NextCompoundChild)
  ELSE BuilderVisit(b, r.Assign, From, To)
BuilderVisitDeclRefExpr(b, DeclRef, From, To, FnBody, LCC) ==
  IF DeclRef.d # 0
  THEN [e |-> NullExpr, b |-> [b EXCEPT !.OrigVarDecl = DeclRef.n, !.ub = TRUE]]
  ELSE BuilderVisitAssign([b EXCEPT !.OrigVarDecl = DeclRef.n],
                          findLastAssignment(b, DeclRef.n, From, FnBody, LCC),
                          From, To, FnBody)

\* ---- the state machine of the local variables ----
\* a body of four declarations and the assignment that is traced:
\*   float4 a = v->position;  float4 &b = a;  float4x4 c = u->xf;
\*   float4 d{1.f, 1.f};  color = b;
\* (the statements of the body are the nodes 101..105; the nodes the builder
\* allocates are numbered from 1)
LiftBody ==
  Ex("CompoundStmt", "",
     <<Stmt(101, DeclStmt("a", <<VPosition>>)),
       Stmt(102, DeclStmt("b", <<LocalRef("a")>>)),
       Stmt(103, DeclStmt("c", <<UXf>>)),
       Stmt(104, DeclStmt("d", <<Ex("CXXConstructExpr", "float4", <<One, One>>)>>)),
       Stmt(105, Assign("color", LocalRef("b")))>>)
\* the statement being traced, the LastCompoundChild of Trace
LiftEnd == LiftBody.a[5]

LiftInit ==
  /\ B = StagesBuilder({HshHostStage, HshVertexStage, HshFragmentStage})
  /\ bpc = "building"
  /\ nops = 0
  /\ last = [NoOp(B) EXCEPT !.kind = "body", !.E = LiftBody]

LocalTraced(V, ub, r) ==
  Operated(r.b, ub,
    [NoOp(B) EXCEPT !.kind = "ref", !.E = LiftBody, !.Var = V,
                    !.res = r.stmt, !.stage = r.stage])

\* the tracer meets a reference to the local variable V
TraceDeclRef(V, ub) ==
  /\ bpc = "building"
  /\ nops < MaxLifts
  /\ LocalTraced(V, ub,
       TracerVisitLocal(B, LocalRef(V), LiftBody, LiftEnd, HshFragmentStage))
  /\ UNCHANGED runVars

\* the stage the tracer gave the last copy of the declaration of V
TracedStages(b, V) ==
  {r.at : r \in {q \in b.ReplacedAssigns : q.old \in {LiftBody.a[k] : k \in 1..4} /\
                                            q.old.n = V}}

LocalLifted(V, From, To, ub, r) ==
  Operated(r.b, ub,
    [NoOp(B) EXCEPT !.kind = "lift", !.E = LiftBody, !.Var = V,
                    !.From = From, !.To = To, !.res = r.e])

\* the node that holds the reference asks for it in stage To
\* (createInterStageReferenceExpr, lines 2211-2215)
LiftDeclRef(V, From, To, ub) ==
  /\ bpc = "building"
  /\ nops < MaxLifts
  /\ From \in TracedStages(B, V)
  /\ To \in B.UseStages /\ To >= From
  /\ LocalLifted(V, From, To, ub,
       BuilderVisitDeclRefExpr(B, LocalRef(V), From, To, LiftBody, LiftEnd))
  /\ UNCHANGED runVars

(***************************************************************************)
(* The nested searches of a trace.  A visit that meets a reference to a    *)
(* local variable looks for its last definition before the statement       *)
(* LastCompoundChild names, and visits the definition with                 *)
(* LastCompoundChild set to the statement that holds it (ValueTracer::     *)
(* VisitDeclRefExpr, lines 2791-2803; StagesBuilder::VisitDeclRefExpr,     *)
(* lines 2171-2178).  A frame of the stack is one visit of a definition:   *)
(* the definition, the LastCompoundChild of the visit, and the references  *)
(* of the definition not visited yet.                                      *)
(***************************************************************************)
SearchVars == {"x", "y"}

\* the references to local variables a visit of E meets, in the order of
\* the visits of the operands (lines 2583-2587, 2563-2564, 2818)
RECURSIVE RefsOf(_)
RECURSIVE RefsOfEach(_, _)
RefsOfEach(a, k) == IF k > Len(a) THEN <<>> ELSE RefsOf(a[k]) \o RefsOfEach(a, k + 1)
RefsOf(E) ==
  IF E.k = "DeclRefExpr" THEN (IF E.n \in SearchVars THEN <<E.n>> ELSE <<>>)
  ELSE RefsOfEach(E.a, 1)

Frame(def, marker) == [def |-> def, marker |-> marker, refs |-> RefsOf(def)]

\* a visit that keeps the LastCompoundChild it was entered with
SearchMarkerKept(f, M) == M

\* lines 2795-2796: SaveAndRestore SavedCompoundChild(
\*   AssignFindInfo.LastCompoundChild, NextCompoundChild)
SearchMarker(f, M) == f.LastCompoundChild

\* x = x + 1 and x += y
SelfAssign(form) ==
  AssignOp(form, "=", LocalRef("x"), Ex(form, "+", <<LocalRef("x"), One>>))
CompoundAssign(form) == AssignOp(form, "+=", LocalRef("x"), LocalRef("y"))

\* the statements of the bodies that are searched
SearchStmts(id) ==
  {Stmt(id, S) : S \in
     {DeclStmt("x", <<One>>), DeclStmt("y", <<LocalRef("x")>>),
      SelfAssign("BinaryOperator"), CompoundAssign("CXXOperatorCallExpr"),
      AssignOp("CXXOperatorCallExpr", "=", LocalRef("y"), LocalRef("x")),
      Ex("CompoundStmt", "", <<Stmt(10 * id + 1, SelfAssign("CXXOperatorCallExpr"))>>)}}

\* three statements and the assignment of the output, out = x
SearchBodies ==
  {Ex("CompoundStmt", "", <<s1, s2, s3, OutAssign(4)>>) :
     s1 \in SearchStmts(1), s2 \in SearchStmts(2), s3 \in SearchStmts(3)}

\* Find is a function of the variable, the body and the stop point: what
\* LastAssignmentFinder(Context).Find(V, Body, End) returns for the variables
\* and the stop points of a body
FindsOf(FnBody) ==
  [q \in SearchVars \X CompoundChildren(FnBody) |-> Find(q[1], FnBody, q[2])]

\* Trace(Assign, Body, LCC, Stage) of run(), lines 3196-3201: the last
\* assignment of the output and the statement that holds it
SearchInit ==
  /\ B = StagesBuilder({HshHostStage, HshVertexStage, HshFragmentStage})
  /\ bpc = "building"
  /\ nops = 0
  /\ last \in {[NoOp(B) EXCEPT !.kind = "body", !.E = FnBody,
                  !.finds = FindsOf(FnBody),
                  !.stack = <<Frame(Find("color", FnBody, NullExpr).LastAssign,
                                    Find("color", FnBody, NullExpr).LastCompoundChild)>>] :
               FnBody \in SearchBodies}

\* the stack after the visit met reference V and Find returned f
Searched(stack, V, f) ==
  IF f.LastAssign = NullExpr
  THEN [last EXCEPT !.kind = "error", !.Var = V, !.stack = <<>>]
  ELSE [last EXCEPT !.kind = "search", !.Var = V, !.res = f.LastAssign,
          !.stack = Append([stack EXCEPT ![Len(stack)].refs = Tail(@)],
                           Frame(f.LastAssign,
                                 SearchMarker(f, stack[Len(stack)].marker)))]

\* VisitDeclRefExpr, lines 2791-2803: the visit meets the next reference of
\* the definition it is in; no definition found is the error result, which
\* every visit on the stack hands on
SearchRef ==
  /\ bpc = "building"
  /\ last.stack # <<>>
  /\ Len(last.stack) < MaxDepth
  /\ last.stack[Len(last.stack)].refs # <<>>
  /\ last' = Searched(last.stack, Head(last.stack[Len(last.stack)].refs),
                      last.finds[<<Head(last.stack[Len(last.stack)].refs),
                                   last.stack[Len(last.stack)].marker>>])
  /\ UNCHANGED <<B, bpc, nops, runVars>>

\* the visit of a definition returns: LastCompoundChild is restored
SearchReturn ==
  /\ bpc = "building"
  /\ last.stack # <<>>
  /\ last.stack[Len(last.stack)].refs = <<>>
  /\ last' = [last EXCEPT !.kind = IF Len(last.stack) = 1 THEN "done" ELSE "return",
                          !.stack = SubSeq(@, 1, Len(@) - 1)]
  /\ UNCHANGED <<B, bpc, nops, runVars>>

(***************************************************************************)
(* The vertex attribute locations printStage assigns.                      *)
(***************************************************************************)
\* HshBuiltins::isMatrixType of identifyBuiltinType (lines 684-686, 280-287):
\* the matrix rows of the type table; a scalar is no builtin type (HBT_None)
isMatrixType(Tp) == Tp \in {"float3x3", "float4x4"}

\* a policy whose matrices take one location
GLSLLocationStepFlat(Tp) == 1

\* GLSLPrintingPolicy::printStage, lines 1522-1552: what the loop adds to
\* Location after the field of type Tp
GLSLLocationStep(Tp) ==
  IF isMatrixType(Tp) THEN (IF Tp = "float3x3" THEN 3 ELSE 4) ELSE 1

\* HLSLPrintingPolicy::printStage, lines 1752-1797
HLSLLocationStep(Tp) ==
  IF isMatrixType(Tp) THEN (IF Tp = "float3x3" THEN 3 ELSE 4) ELSE 1

\* the declaration a policy prints for field f of attribute a
AttributeDecl(Attributes, a, f, Location) ==
  [Name |-> Attributes[a].Name, Field |-> f, Tp |-> Attributes[a].Fields[f],
   Location |-> Location]

\* the loops of lines 1523-1551: the declarations printed from field f of
\* attribute a on, Location being the location reached
RECURSIVE GLSLPrintAttributes(_, _, _, _)
GLSLPrintAttributes(Attributes, a, f, Location) ==
  IF a > Len(Attributes) THEN <<>>
  ELSE IF f > Len(Attributes[a].Fields)
  THEN GLSLPrintAttributes(Attributes, a + 1, 1, Location)
  ELSE <<AttributeDecl(Attributes, a, f, Location)>> \o
       GLSLPrintAttributes(Attributes, a, f + 1,
         Location + GLSLLocationStep(Attributes[a].Fields[f]))

\* the loops of lines 1754-1794 (ATTR<Location>, and vk::location(Location)
\* for HT_VULKAN_SPIRV)
RECURSIVE HLSLPrintAttributes(_, _, _, _)
HLSLPrintAttributes(Attributes, a, f, Location) ==
  IF a > Len(Attributes) THEN <<>>
  ELSE IF f > Len(Attributes[a].Fields)
  THEN HLSLPrintAttributes(Attributes, a + 1, 1, Location)
  ELSE <<AttributeDecl(Attributes, a, f, Location)>> \o
       HLSLPrintAttributes(Attributes, a, f + 1,
         Location + HLSLLocationStep(Attributes[a].Fields[f]))

\* the attribute records of a program: up to MaxAttrs records (a vertex and
\* an instance buffer, registered under distinct names by lines 2333-2340)
\* of MaxFields fields altogether
FieldTypes == {"float", "float4", "float3x3", "float4x4"}
FieldLists == UNION {[1..n -> FieldTypes] : n \in 0..MaxFields}
AttributeNames == <<"v", "i", "j", "k">>
\* the ways to deal the fields 1..n to consecutive records
Owners(n) ==
  {o \in [1..n -> 1..MaxAttrs] :
     /\ n > 0 => o[1] = 1
     /\ \A i \in 2..n : o[i] \in {o[i - 1], o[i - 1] + 1}}
RecordFields(fl, o, a) ==
  LET idx == {i \in DOMAIN fl : o[i] = a}
      lo == CHOOSE i \in idx : \A j \in idx : i <= j
  IN [i \in 1..Cardinality(idx) |-> fl[lo + i - 1]]
AttributeTables ==
  UNION {{[a \in 1..(IF fl = <<>> THEN 0 ELSE o[Len(fl)]) |->
             [Name |-> AttributeNames[a], Fields |-> RecordFields(fl, o, a)]] :
            o \in Owners(Len(fl))} : fl \in FieldLists}

PrintInit ==
  /\ B \in {[StagesBuilder({HshHostStage, HshVertexStage, HshFragmentStage})
             EXCEPT !.AttributeRecords = t] : t \in AttributeTables}
  /\ bpc = "finalized"
  /\ nops = 0
  /\ last = NoOp(B)

\* printResults (lines 2431-2450) prints the Vertex stage with the policy
\* MakePrintingPolicy made for a target (lines 1853-1868)
PrintVertexStage(Policy) ==
  /\ bpc = "finalized"
  /\ last.locs[Policy] = <<>>
  /\ last' = [last EXCEPT !.kind = "print",
                !.locs[Policy] =
                   IF Policy = "GLSL"
                   THEN GLSLPrintAttributes(B.AttributeRecords, 1, 1, 0)
                   ELSE HLSLPrintAttributes(B.AttributeRecords, 1, 1, 0)]
  /\ UNCHANGED <<B, bpc, nops, runVars>>

\* finalizeResults, line 3209
Finalize ==
  /\ bpc = "building"
  /\ bpc' = "finalized"
  /\ B' = finalizeResults(B)
  /\ last' = [NoOp(B) EXCEPT !.kind = "finalize", !.To = last.To, !.done = last.done]
  /\ UNCHANGED <<nops, runVars>>

(***************************************************************************)
(* The specifications.                                                     *)
(***************************************************************************)
RunNext ==
  \/ FindBuiltinDecls /\ UNCHANGED buildVars
  \/ \E left \in ParmsLeft : StartProgram(left) /\ UNCHANGED buildVars
  \/ \E p \in ParmKinds, oob \in {"null", "wild", "crash"}, left \in ParmsLeft :
       CheckParm(p, oob, left) /\ UNCHANGED buildVars
  \/ \E bodyErr \in BodyErrs(nOut), body \in Bodies :
       Build(bodyErr, body) /\ UNCHANGED buildVars
  \/ \E results \in ResultChoices : EmitTarget(results) /\ UNCHANGED buildVars
  \/ Finish /\ UNCHANGED buildVars

\* the generator is constructed; no builder is under observation
Init == RunInit /\ BuildIdle

SpecRun == Init /\ [][RunNext]_vars

\* the consumer, at rest
RunIdle ==
  /\ RunInit
  /\ TU = Catalog
  /\ Targets = <<"GLSL">>

PromoteNext ==
  \/ \E v \in Promotable, To \in PromoteTo, ub \in {"goes", "crash"} : Promote(v, To, ub)
  \/ Finalize

PromoteInit == RunIdle /\ BuildInit(BuilderMasks)

SpecPromote == PromoteInit /\ [][PromoteNext]_vars

TraceNext ==
  \/ \E A \in Assigns, ub \in {"goes", "crash"} : TraceOutput(A, ub)
  \/ Finalize

TraceInit == RunIdle /\ BuildInit(RunMasks)

SpecTrace == TraceInit /\ [][TraceNext]_vars

FindNext ==
  \E V \in {"x", "y"}, End \in {NullExpr} \cup CompoundChildren(last.E) :
    FindLastAssignment(V, End)

FinderInit == RunIdle /\ FindInit

SpecFind == FinderInit /\ [][FindNext]_vars

LiftNext ==
  \/ \E V \in LocalVars, ub \in {"goes", "crash"} : TraceDeclRef(V, ub)
  \/ \E V \in LocalVars, From \in StageIndex, To \in StageIndex,
        ub \in {"goes", "crash"} : LiftDeclRef(V, From, To, ub)

LifterInit == RunIdle /\ LiftInit

SpecLift == LifterInit /\ [][LiftNext]_vars

SearchNext == SearchRef \/ SearchReturn

SearcherInit == RunIdle /\ SearchInit

\* the visitor runs to its end: a step that can be taken is taken
SpecSearch == SearcherInit /\ [][SearchNext]_vars /\ WF_vars(SearchNext)

PrintNext == \E Policy \in {"GLSL", "HLSL"} : PrintVertexStage(Policy)

PrinterInit == RunIdle /\ PrintInit

SpecPrint == PrinterInit /\ [][PrintNext]_vars

SampleNext ==
  \/ \E C \in SampleSites : RegisterSample(C)
  \/ Finalize

SamplerInit == RunIdle /\ SampleInit

SpecSample == SamplerInit /\ [][SampleNext]_vars

(***************************************************************************)
(* Part I, properties.  Out is everything written so far: the artifacts in *)
(* OS and the records, tables and references in AnonOS, which              *)
(* HandleTranslationUnit appends to OS.                                    *)
(***************************************************************************)
Out == IF pc = "finished" THEN OS ELSE OS \o AnonOS
Artifacts == {i \in DOMAIN Out : Out[i].k = "artifact"}
Refs == {i \in DOMAIN Out : Out[i].k = "ref"}
FirstRef(h) ==
  CHOOSE i \in Refs : Out[i].hash = h /\ \A j \in Refs : Out[j].hash = h => i <= j
SameBinary(x, y) == x.prog = y.prog /\ x.target = y.target /\ x.stage = y.stage
ProgramEnded == pc \in {"idle", "finished"} /\ hist.prog > 0

\* C1: every hash is stored as an artifact once, by the program, target and
\* stage that refer to it first; every non-empty stage binary compiled for a
\* program and target has a reference with its hash in that program's table;
\* the set of seen hashes is the set of stored hashes.
C1_DedupOnce ==
  /\ \A i, j \in Artifacts : Out[i].hash = Out[j].hash => i = j
  /\ \A a \in Artifacts : \E i \in Refs : Out[i].hash = Out[a].hash
  /\ \A i \in Refs : \E a \in Artifacts :
        Out[a].hash = Out[i].hash /\ SameBinary(Out[a], Out[FirstRef(Out[i].hash)])
  /\ \A b \in hist.bins : \E i \in Refs :
        /\ Out[i].prog = hist.prog /\ Out[i].target = b.target
        /\ Out[i].stage = b.stage /\ Out[i].hash = b.hash
  /\ SeenHashes = {Out[a].hash : a \in Artifacts}

\* two programs refer to one hash, stored once
C1_Witness ==
  \E i, j \in Refs :
    /\ Out[i].prog # Out[j].prog
    /\ Out[i].hash = Out[j].hash
    /\ Cardinality({a \in Artifacts : Out[a].hash = Out[i].hash}) = 1

\* C2: when the processing of a program has ended and an error was reported
\* for it, no artifact of that program is stored and SeenHashes is what it
\* was when the program started.
C2_FatalErrorEmitsNothing ==
  (ProgramEnded /\ HasError(hist.reports)) =>
    /\ SeenHashes = hist.seen0
    /\ \A a \in Artifacts : Out[a].prog # hist.prog

\* C3: a program for which no error is reported and whose body has none is
\* processed to the end, whatever happened to the programs before it: it is
\* compiled for every target and its define is written.
C3_OtherProgramsUnaffected ==
  (pc = "idle" /\ hist.prog > 0 /\ ~HasError(hist.reports) /\ hist.bodyOK) =>
    /\ hist.outcome = "completed"
    /\ hist.compiled = {Targets[i] : i \in DOMAIN Targets}

\* C9: a program with a vertex-buffer or instance-buffer parameter whose slot
\* is outside [0, 32) gets the range error, its processing stops at that
\* parameter, and nothing is compiled or written for it.
C9_VertexBufferRangeRejected ==
  hist.badVB =>
    /\ "E:VertexBufferOutOfRange" \in hist.reports
    /\ hist.outcome \in {"rejected", "crashed"}
    /\ pc \in {"idle", "finished", "crashed"}
    /\ hist.compiled = {} /\ hist.bins = {}
    /\ \A i \in DOMAIN Out : Out[i].prog # hist.prog
    /\ SeenHashes = hist.seen0

\* a program was rejected for a vertex buffer out of range, after a program
\* that was written
C9_Witness ==
  /\ hist.badVB /\ hist.outcome = "rejected" /\ hist.prog > 1
  /\ "E:VertexBufferOutOfRange" \in hist.reports
  /\ Artifacts # {}

\* C10: no accepted parameter takes a slot that an earlier accepted parameter
\* of the same table of the program holds.
C10_SlotsUnique == ~hist.clash

\* C11: validation goes on after a parameter has failed, so that a program
\* aborted by validation leaves no invalid parameter unreported: the loop has
\* no invalid parameter still before it.
C11_EveryInvalidParmReported ==
  hist.outcome = "rejected" => hist.left # "invalid"

\* C15: when a builtin declaration of the catalog is absent from the
\* translation unit, populating the catalog reports an error and the run ends
\* there: no program is processed and nothing is written to either stream.
C15_MissingBuiltinAborts ==
  (pc # "start" /\ ~(Catalog \subseteq TU)) =>
    /\ pc = "nocatalog"
    /\ ErrorOccurred /\ HasError(hist.reports)
    /\ nprog = 0 /\ hist.prog = 0
    /\ OS = <<>> /\ AnonOS = <<>>

\* the catalog was populated from a translation unit that lacks one function
C15_Witness ==
  /\ pc = "nocatalog"
  /\ Catalog \ TU = {"lerp4"}
  /\ hist.reports = {"E:UnableToLocate lerp4"}

\* C14: for a binary target, a stage with a source for which the native
\* compiler gives no result, no object or an empty object gets an error
\* report; a non-empty object that comes with diagnostics gets a warning only
\* and is kept as the binary of the stage.
C14_NoObjectIsAnError ==
  \A d \in hist.dxc :
    /\ ~(d.answer.result /\ d.answer.hasObj /\ d.answer.size > 0) =>
          HasError(d.reports)
    /\ (d.answer.result /\ d.answer.hasObj /\ d.answer.size > 0 /\ d.answer.errs) =>
          d.kept /\ d.reports = {"W:DxcProblem"}


(***************************************************************************)
(* Part II, properties.                                                    *)
(***************************************************************************)
\* the record array a promotion From -> To goes through
RecordArray(From) ==
  IF From = HshHostStage THEN "HostToStageRecords" ELSE "InterStageRecords"

\* the active stages after S up to T, in order
RECURSIVE ActiveBetween(_, _, _)
ActiveBetween(us, S, T) ==
  IF S >= T THEN <<>>
  ELSE (IF S + 1 \in us THEN <<S + 1>> ELSE <<>>) \o ActiveBetween(us, S + 1, T)

\* the path of a value promoted From -> To: a Host value goes to To directly,
\* any other passes every active stage in between
PromotionPath(us, From, To) ==
  IF From = HshHostStage THEN <<From, To>> ELSE <<From>> \o ActiveBetween(us, From, To)

FieldsFor(rec, E) == {f \in 1..Len(rec.Fields) : rec.Fields[f] = E}
HasStmt(b, S, e) ==
  \E j \in 1..Len(b.StageStmts[S].Stmts) : b.StageStmts[S].Stmts[j].e = e

\* every hop S -> D of the path has a field for E in the record of D and, in
\* stage S, the assignment of E (first hop) or of the consumer field of the
\* record of S (later hops) to that field; res reads the consumer field of
\* the last record
ChainHolds(b, E, From, To, res) ==
  LET arr == RecordArray(From)
      path == PromotionPath(b.UseStages, From, To)
  IN /\ \A h \in 1..(Len(path) - 1) :
          \E f \in FieldsFor(b[arr][path[h + 1]], E) :
            \/ /\ h = 1
               /\ HasStmt(b, path[h],
                    AssignExpr(FieldReference("Producer", arr, path[h + 1], f - 1), E))
            \/ /\ h > 1
               /\ \E g \in FieldsFor(b[arr][path[h]], E) :
                    HasStmt(b, path[h],
                      AssignExpr(FieldReference("Producer", arr, path[h + 1], f - 1),
                                 FieldReference("Consumer", arr, path[h], g - 1)))
     /\ \E f \in FieldsFor(b[arr][To], E) :
          res = FieldReference("Consumer", arr, To, f - 1)
     /\ res # E

ForwardPromotion ==
  /\ last.kind = "promote"
  /\ last.From # HshNoStage
  /\ last.From < last.To
  /\ last.To \in B.UseStages

InterfaceRecords(b) ==
  {b.HostToStageRecords[D] : D \in StageIndex} \cup
  {b.InterStageRecords[D] : D \in StageIndex}

\* C6: in every interface record no two fields hold structurally equal
\* expressions and the number of fields is the number of distinct expressions
\* requested; a request does not move the fields made before; and a request
\* for an expression requested before returns the field made then, leaving
\* the number of fields as it was
C6_FieldReuse ==
  /\ \A rec \in InterfaceRecords(B) :
       /\ \A f, g \in 1..Len(rec.Fields) :
            isSameComparisonOperand(rec.Fields[f], rec.Fields[g]) => f = g
       /\ Len(rec.Fields) = Cardinality(rec.Requested)
  /\ \A arr \in {"HostToStageRecords", "InterStageRecords"}, D \in StageIndex :
       /\ Len(last.before[arr][D].Fields) <= Len(B[arr][D].Fields)
       /\ \A f \in 1..Len(last.before[arr][D].Fields) :
            B[arr][D].Fields[f] = last.before[arr][D].Fields[f]
  /\ (last.kind = "promote" /\ last.res.r # "")
       => LET rec == B[last.res.r][last.res.d]
              old == last.before[last.res.r][last.res.d]
          IN /\ last.res.i + 1 \in 1..Len(rec.Fields)
             /\ rec.Fields[last.res.i + 1] = last.E
             /\ (last.E \in old.Requested => rec.Fields = old.Fields)

C6_Witness ==
  /\ last.kind = "promote"
  /\ last.res.r # ""
  /\ last.E \in last.before[last.res.r][last.res.d].Requested
  /\ Len(B[last.res.r][last.res.d].Fields) = 2
  /\ last.res.i = 0

\* a stage is interpolated at T when it is earlier than T and not Host; the
\* unbound stage of a literal is lower than every stage
Interpolated(Stage, T) == Stage # HshHostStage /\ Stage < T

Divides == {o \in last.ops : o.op \in {"/", "/="}}

RECURSIVE ArgsSubExprs(_, _)
RECURSIVE SubExprs(_)
ArgsSubExprs(a, k) ==
  IF k > Len(a) THEN {} ELSE SubExprs(a[k]) \cup ArgsSubExprs(a, k + 1)
SubExprs(E) == {E} \cup ArgsSubExprs(E.a, 1)

FieldSet(rec) == {rec.Fields[f] : f \in 1..Len(rec.Fields)}

\* the outputs of the program are the position, host transform times vertex
\* position, and the color, a sample of a fragment texture
DrawSomething == last.done = <<PositionAssign, ColorAssign>>

\* C8: for that program the active stages are Host, Vertex and Fragment and
\* the final stage count is 2; the Host-to-Vertex record has one field, the
\* transform; tracing the position adds no field to the Vertex-to-Fragment
\* record; and the Host-to-Fragment and Vertex-to-Fragment records hold
\* fields only for values the color reads
C8_DrawSomething ==
  /\ (DrawSomething /\ bpc = "finalized")
       => /\ B.UseStages = {HshHostStage, HshVertexStage, HshFragmentStage}
          /\ B.FinalStageCount = 2
          /\ B.HostToStageRecords[HshVertexStage].Fields = <<UXf>>
          /\ FieldSet(B.HostToStageRecords[HshFragmentStage]) \subseteq SubExprs(ColorAssign)
          /\ FieldSet(B.InterStageRecords[HshFragmentStage]) \subseteq SubExprs(ColorAssign)
          /\ B.InterStageRecords[HshFragmentStage].Fields = <<>>
  /\ (last.kind = "trace" /\ last.E = PositionAssign /\ HshFragmentStage \in B.UseStages)
       => /\ B.InterStageRecords = last.before.InterStageRecords
          /\ B.HostToStageRecords[HshVertexStage].Fields = <<UXf>>
          /\ last.stage = HshVertexStage

C8_Witness ==
  /\ DrawSomething
  /\ bpc = "finalized"
  /\ B.FinalStageCount = 2
  /\ Len(B.SampleCalls[HshFragmentStage]) = 1
  /\ Len(B.StageStmts[HshVertexStage].Stmts) = 1
  /\ Len(B.StageStmts[HshFragmentStage].Stmts) = 1

\* ---- Host values ----
\* the last operation promoted a Host value to an active stage
HostPromotion ==
  /\ last.kind = "promote"
  /\ last.From = HshHostStage
  /\ last.To > HshHostStage
  /\ last.To \in B.UseStages

\* the statements of stage S of builder b that are e
StmtsOf(b, S, e) ==
  {j \in 1..Len(b.StageStmts[S].Stmts) : b.StageStmts[S].Stmts[j].e = e}

CallTraced ==
  /\ last.kind = "trace"
  /\ last.E.a[2].k = "CallExpr"
  /\ last.res # NullExpr

\* the stages the tracer found for the arguments of the traced call
ArgumentStages ==
  {p.From : p \in {q \in last.proms :
                     \E k \in 1..Len(last.E.a[2].a) : q.E = last.E.a[2].a[k]}}

InterpolatedArgument == \E S \in ArgumentStages : GetInterpolated(S, last.To)

\* the call got stage T and every argument was promoted to T
CallAtTarget ==
  /\ \A o \in last.ops : o.op = "=" => o.R = last.To
  /\ \A k \in 1..Len(last.E.a[2].a) :
        \E p \in last.proms : p.E = last.E.a[2].a[k] /\ p.To = last.To

\* C17: a call of a builtin function whose interpolationDistributes flag is
\* false, traced against stage T with an interpolated argument, gets stage T
\* and has every argument promoted to T, whatever the number of arguments.
C17_CallForcedToTarget ==
  (CallTraced /\ InterpolatedArgument /\
   ~isInterpolationDistributed(last.E.a[2].n)) => CallAtTarget

\* ---- last definitions ----
\* the node classes whose operands, arguments or children belong to the
\* statement list, and the conditional ones
ListNodes ==
  {"CompoundStmt", "DeclStmt", "BinaryOperator", "CXXOperatorCallExpr",
   "UnaryOperator", "MemberExpr", "CallExpr", "CXXConstructExpr", "InitListExpr",
   "ParenExpr", "ImplicitCastExpr"}
ConditionalNodes == {"IfStmt", "ConditionalOperator"}

\* the nodes of S in source order, going into the nodes of the classes walk
RECURSIVE SourceOrder(_, _)
RECURSIVE SourceOrderEach(_, _, _)
SourceOrderEach(Nodes, k, walk) ==
  IF k > Len(Nodes) THEN <<>>
  ELSE SourceOrder(Nodes[k], walk) \o SourceOrderEach(Nodes, k + 1, walk)
SourceOrder(S, walk) ==
  <<S>> \o (IF S.k \in walk THEN SourceOrderEach(S.a, 1, walk) ELSE <<>>)

\* the nodes of seq before stop point P (all of them without a stop point)
BeforePoint(seq, P) ==
  IF \E i \in 1..Len(seq) : seq[i] = P
  THEN SubSeq(seq, 1, (CHOOSE i \in 1..Len(seq) :
                         seq[i] = P /\ \A j \in 1..(i - 1) : seq[j] # P) - 1)
  ELSE seq

\* node N assigns V: a declaration of V with an initializer, or an assignment
\* or compound assignment whose left side refers to V
AssignsVar(N, V) ==
  \/ N.k = "DeclStmt" /\ N.n = V /\ N.a # <<>>
  \/ /\ N.k \in {"BinaryOperator", "CXXOperatorCallExpr"}
     /\ isAssignmentOp(N.n)
     /\ \E i \in 1..Len(SourceOrder(N.a[1], ListNodes)) :
          /\ SourceOrder(N.a[1], ListNodes)[i].k = "DeclRefExpr"
          /\ SourceOrder(N.a[1], ListNodes)[i].n = V

\* the last node of seq that assigns V, NullExpr when there is none
LastAssigning(seq, V) ==
  IF \A i \in 1..Len(seq) : ~AssignsVar(seq[i], V) THEN NullExpr
  ELSE seq[CHOOSE i \in 1..Len(seq) :
             AssignsVar(seq[i], V) /\ \A j \in (i + 1)..Len(seq) : ~AssignsVar(seq[j], V)]

\* C18: Find returns the last node of the statement list, in source order
\* and before the stop point, that assigns the variable; when the variable is
\* not assigned after its declaration, that is the declaration with its
\* initializer.
C18_LastDefinition ==
  last.kind = "find" =>
    last.res = LastAssigning(BeforePoint(SourceOrder(last.E, ListNodes), last.End),
                             last.Var)

\* the variable is assigned again after the stop point, and Find returns the
\* compound assignment before it
C18_Witness ==
  /\ last.kind = "find"
  /\ last.End = OutAssign(3)
  /\ last.Var = "x"
  /\ last.res = Stmt(2, AssignOp("CXXOperatorCallExpr", "+=", LocalRef("x"), LocalRef("y")))
  /\ last.E.a[1] = Stmt(1, DeclStmt("x", <<One>>))
  /\ AssignsVar(last.E.a[4], "x")

\* the walk to the stop point meets a loop, an early exit or a construct the
\* finder does not know
MeetsRejected ==
  \E i \in 1..Len(BeforePoint(SourceOrder(last.E, ListNodes \cup ConditionalNodes),
                             last.End)) :
    BeforePoint(SourceOrder(last.E, ListNodes \cup ConditionalNodes), last.End)[i].k
      \in {"ForStmt", "ReturnStmt"}

\* C19: Find goes into the branches of conditional statements, into nested
\* blocks and into conditional expressions: the last assignment it returns is
\* the last one of the walk that includes them, and it reports an error only
\* for loops, early exits and constructs it does not know.
C19_ConditionalsDescended ==
  last.kind = "find" =>
    /\ last.res = LastAssigning(
          BeforePoint(SourceOrder(last.E, ListNodes \cup ConditionalNodes), last.End),
          last.Var)
    /\ ~MeetsRejected => last.reports = {}

\* ---- the sampler table ----
\* the sample calls a builder holds for stage S
CallsOf(b, S) == {b.SampleCalls[S][c] : c \in 1..Len(b.SampleCalls[S])}

\* C12: the sampler table holds one record per configuration; every recorded
\* call site refers to the record of the configuration it asks for, and that
\* record's usage mask has the stage the call site samples in.
C12_OneRecordPerConfig ==
  /\ \A i, j \in 1..Len(B.Samplers) :
        B.Samplers[i].Config = B.Samplers[j].Config => i = j
  /\ \A S \in StageIndex : \A call \in CallsOf(B, S) :
        /\ call.SamplerIndex + 1 \in 1..Len(B.Samplers)
        /\ B.Samplers[call.SamplerIndex + 1].Config = call.Expr.n
        /\ S \in B.Samplers[call.SamplerIndex + 1].UseStages

\* a vertex-texture and two fragment-texture call sites share one record,
\* whose mask has both stages
C12_Witness ==
  \E j \in 1..Len(B.Samplers) :
    /\ B.Samplers[j].UseStages = {HshVertexStage, HshFragmentStage}
    /\ \E call \in CallsOf(B, HshVertexStage) : call.SamplerIndex = j - 1
    /\ Cardinality({call \in CallsOf(B, HshFragmentStage) :
                      call.SamplerIndex = j - 1}) = 2

\* the registration of call C with builder b needs a record of its own
NeedsNewSampler(b, C) ==
  /\ C.n \notin {"nonconstexpr", "badstruct"}
  /\ \A j \in 1..Len(b.Samplers) : b.Samplers[j].Config # C.n
  /\ \A call \in CallsOf(b, TextureAttrStage(C.a[1])) : call.Expr # C

\* the last operation was a registration that met a full table and asked
\* for a new record
TableFullAtLastSample ==
  /\ last.kind = "sample"
  /\ NeedsNewSampler(last.before, last.E)
  /\ Len(last.before.Samplers) = HSH_MAX_SAMPLERS

\* C13: the sampler table never holds more than HSH_MAX_SAMPLERS records, and
\* a registration that needs a new record when the table is full reports the
\* overflow error and leaves the table and the sample calls as they were.
C13_SamplerLimit ==
  /\ Len(B.Samplers) <= HSH_MAX_SAMPLERS
  /\ TableFullAtLastSample =>
        /\ "E:SamplerOverflow" \in B.reports
        /\ HasError(B.reports)
        /\ B.Samplers = last.before.Samplers
        /\ B.SampleCalls = last.before.SampleCalls

\* a registration was refused at a full table
C13_Witness ==
  /\ TableFullAtLastSample
  /\ "E:SamplerOverflow" \in B.reports \ last.before.reports

\* the declaration statements of variable V in the list of stage S, and the
\* reference count of the declaration (0 when the list holds none)
DeclsOf(b, S, V) ==
  {j \in 1..Len(b.StageStmts[S].Stmts) :
     IsDeclStmt(b.StageStmts[S].Stmts[j].e) /\ b.StageStmts[S].Stmts[j].e.n = V}
RefCount(b, S, V) ==
  IF DeclsOf(b, S, V) = {} THEN 0
  ELSE b.StageStmts[S].StmtDeclRefCount[CHOOSE j \in DeclsOf(b, S, V) : TRUE][1]
LessOne(n) == IF n = 0 THEN 0 ELSE n - 1

\* C20: a stage's list holds at most one declaration statement of a local
\* variable, and the declaration stays exactly as long as references remain:
\* a listed statement has a count of at least one, a traced reference adds one
\* to the count of its variable in the stage of the declaration, and lifting a
\* reference takes one from the count in the origin stage (the declaration
\* goes when the count was one) and adds one in the stage lifted to
C20_DeclarationRefCounts ==
  /\ \A S \in StageIndex, V \in LocalVars : Cardinality(DeclsOf(B, S, V)) <= 1
  /\ \A S \in StageIndex : \A j \in 1..Len(B.StageStmts[S].Stmts) :
       B.StageStmts[S].StmtDeclRefCount[j][1] >= 1
  /\ last.kind = "ref" /\ last.res # NullExpr /\ last.stage \in StageIndex =>
       RefCount(B, last.stage, last.Var) = RefCount(last.before, last.stage, last.Var) + 1
  /\ last.kind = "lift" /\ last.From # last.To =>
       /\ RefCount(B, last.From, last.Var) =
            LessOne(RefCount(last.before, last.From, last.Var))
       /\ RefCount(B, last.To, last.Var) = RefCount(last.before, last.To, last.Var) + 1
  /\ last.kind = "lift" /\ last.From = last.To =>
       RefCount(B, last.To, last.Var) = RefCount(last.before, last.To, last.Var)

\* the errors of an expression the tracer reports
ExpressionErrors ==
  {"E:UnsupportedStmt", "E:UnsupportedFunctionCall", "E:BadTextureReference",
   "E:UnattributedTexture"}
ExpressionErrorMet ==
  /\ last.kind = "trace"
  /\ (B.reports \ last.before.reports) \cap ExpressionErrors # {}
\* the sample calls the builder holds
SampleCallsOf(b) ==
  UNION {{b.SampleCalls[S][j].Expr : j \in 1..Len(b.SampleCalls[S])} : S \in StageIndex}

\* C21: a trace that meets an expression error returns the error result and
\* leaves the statements and the sample calls of the builder as they were
C21_ExpressionErrorStopsTrace ==
  ExpressionErrorMet =>
    /\ last.res = NullExpr
    /\ B.StageStmts = last.before.StageStmts
    /\ SampleCallsOf(B) = SampleCallsOf(last.before)

\* the interface records of the builder: both arrays, every consumer stage
RecordsOf(b) ==
  {b.HostToStageRecords[D] : D \in StageIndex} \cup
  {b.InterStageRecords[D] : D \in StageIndex}

\* C22: an interface record exists only once a value was requested across
\* its boundary; it is finalized once, by the finalization of the program and
\* not before; and nothing operates on the builder after the finalization
C22_RecordLifetime ==
  /\ \A rec \in RecordsOf(B) : rec.Record => rec.Requested # {}
  /\ \A rec \in RecordsOf(B) :
       rec.Finalized = (IF rec.Record /\ bpc = "finalized" THEN 1 ELSE 0)
  /\ bpc = "finalized" => last.kind = "finalize"

\* the operations of the last trace that add, subtract, multiply or assign
Arithmetics == {o \in last.ops : o.op \in ArithmeticOps}

\* C23: an addition, subtraction, multiplication or assignment, compound or
\* plain, in either operator form, has the greatest stage of its operands as
\* its stage, whether or not an operand is interpolated (the stage of a
\* literal, HshNoStage, is below every stage)
C23_ArithmeticKeepsStage ==
  \A o \in Arithmetics : o.Stage = Max(o.L, o.R)

\* a trace for the Fragment stage met a builtin operation of a Vertex value
\* and a literal, which stays in the Vertex stage, inside the overloaded
\* assignment of the output, whose operand is interpolated then
C23_Witness ==
  /\ last.kind = "trace"
  /\ \E o \in Arithmetics :
       /\ o.form = "BinaryOperator" /\ o.op # "=" /\ o.T = HshFragmentStage
       /\ o.L = HshVertexStage /\ o.R = HshNoStage /\ o.Stage = HshVertexStage
  /\ \E o \in Arithmetics :
       /\ o.form = "CXXOperatorCallExpr" /\ o.op = "=" /\ o.T = HshFragmentStage
       /\ o.R = HshVertexStage /\ o.Stage = Max(o.L, o.R)

\* the locations a declaration takes: a matrix one per column
LocationRange(d) ==
  d.Location ..
    (d.Location + (IF d.Tp = "float3x3" THEN 3 ELSE IF d.Tp = "float4x4" THEN 4 ELSE 1) - 1)
Width(Tp) == IF Tp = "float3x3" THEN 3 ELSE IF Tp = "float4x4" THEN 4 ELSE 1
RECURSIVE WidthsBefore(_, _)
WidthsBefore(decls, k) ==
  IF k <= 1 THEN 0 ELSE WidthsBefore(decls, k - 1) + Width(decls[k - 1].Tp)
FieldOrder(Attributes) ==
  {<<a, f>> \in (1..Len(Attributes)) \X (1..MaxFields + 1) : f <= Len(Attributes[a].Fields)}
Printed(Policy) == last.locs[Policy]

\* C24: the Vertex stage of either family declares the fields of the
\* attribute table in order, each at the sum of the widths of the fields
\* before it (3 for float3x3, 4 for float4x4, 1 otherwise), so from 0 on and
\* without overlap, and both families give a field the same location
C24_AttributeLocations ==
  /\ \A P \in {"GLSL", "HLSL"} : Printed(P) # <<>> =>
       /\ Len(Printed(P)) = Cardinality(FieldOrder(B.AttributeRecords))
       /\ \A k \in 1..Len(Printed(P)) :
            /\ Printed(P)[k].Location = WidthsBefore(Printed(P), k)
            /\ \A h \in 1..(k - 1) :
                 /\ LocationRange(Printed(P)[h]) \cap LocationRange(Printed(P)[k]) = {}
                 /\ <<Printed(P)[h].Name, Printed(P)[h].Field>> #
                      <<Printed(P)[k].Name, Printed(P)[k].Field>>
                 /\ Printed(P)[h].Name = Printed(P)[k].Name =>
                      Printed(P)[h].Field < Printed(P)[k].Field
  /\ (Printed("GLSL") # <<>> /\ Printed("HLSL") # <<>>) => Printed("GLSL") = Printed("HLSL")

\* both families printed a table in which a vector follows both matrices
C24_Witness ==
  /\ Printed("GLSL") # <<>> /\ Printed("HLSL") # <<>>
  /\ \E k \in 1..Len(Printed("HLSL")) :
       Printed("HLSL")[k].Tp = "float4" /\ Printed("HLSL")[k].Location = 7

\* C25: the statement list of a stage is only asked for with a stage of
\* Host..Fragment: when the tracer has traced a reference to a local
\* variable and adds the traced assignment (addStageStmt, line 2801), the
\* stage of the assignment is none of the unbound stage, also for a variable
\* initialized from literals only
C25_StageTablesIndexedByStage ==
  (last.Var # "" /\ last.To = HshNoStage /\ last.res # NullExpr) =>
     last.stage \in StageIndex

\* the promotions the last trace asked of the builder
PromotionRequests == IF last.kind \in {"trace", "crash"} THEN last.proms ELSE {}
IsForward(From, To) ==
  \/ From = HshNoStage \/ To = HshNoStage
  \/ From = To
  \/ From = HshHostStage
  \/ From < To

\* C26: no promotion is asked backward: of every request (From, To) of a
\* trace a stage is unbound, or From is To, or From is Host, or From is
\* earlier than To, also when the position of the vertex depends on a value
\* of the Fragment stage
C26_NoBackwardPromotion == \A p \in PromotionRequests : IsForward(p.From, p.To)

\* C27: the slot tables of a program (vertex buffers, textures of a stage,
\* color targets) are read and written only at indices inside the table:
\* no check of a parameter has read or written a table at the index that
\* failed the range test
C27_SlotTablesInRange == ~hist.wild

\* C28: every reference in the table of a program for target X and stage S
\* names an artifact that was stored for target X and stage S, also when two
\* targets of the run make the same bytes of a stage
C28_ReferenceNamesOwnTarget ==
  \A i \in Refs : \E a \in Artifacts :
     /\ Out[a].hash = Out[i].hash
     /\ Out[a].target = Out[i].target
     /\ Out[a].stage = Out[i].stage

\* C29: while the builder builds, in every stage the statement list and the
\* list of reference counts have the same length, every count is at least
\* one, and a count above one stands at the place of a declaration statement
\* (references are counted on declarations only)
C29_CountsAligned ==
  bpc = "building" =>
    \A S \in StageIndex :
       /\ Len(B.StageStmts[S].StmtDeclRefCount) = Len(B.StageStmts[S].Stmts)
       /\ \A j \in 1..Len(B.StageStmts[S].StmtDeclRefCount) :
            /\ B.StageStmts[S].StmtDeclRefCount[j][1] >= 1
            /\ B.StageStmts[S].StmtDeclRefCount[j][1] > 1 =>
                 IsDeclStmt(B.StageStmts[S].Stmts[j].e)

\* a reference was lifted out of a stage whose declaration went with it,
\* while another declaration is counted twice
C29_Witness ==
  /\ last.kind = "lift" /\ last.From # last.To
  /\ RefCount(last.before, last.From, last.Var) = 1
  /\ DeclsOf(B, last.From, last.Var) = {}
  /\ \E S \in StageIndex : \E j \in 1..Len(B.StageStmts[S].Stmts) :
       B.StageStmts[S].StmtDeclRefCount[j][1] = 2

\* the place of a statement of a block in the source order of the body
Place(N) ==
  CHOOSE i \in 1..Len(SourceOrder(last.E, {"CompoundStmt"})) :
    SourceOrder(last.E, {"CompoundStmt"})[i] = N
\* every nested search stops at the statement that holds the definition
\* being visited, which lies before the stop point of the search around it,
\* and no definition is visited inside a visit of itself
ChainDescends ==
  \A k \in 2..Len(last.stack) :
     /\ last.stack[k].def \in SubExprs(last.stack[k].marker)
     /\ last.stack[k].marker \in CompoundChildren(last.E)
     /\ Place(last.stack[k].marker) < Place(last.stack[k - 1].marker)
     /\ \A j \in 1..(k - 1) : last.stack[j].def # last.stack[k].def
SearchEnded == last.stack = <<>> /\ last.kind \in {"done", "error"}

\* C30: the trace of an output assignment ends: every nested search for a
\* last definition stops at the statement holding the definition that is
\* being visited, strictly before the stop point of the search it is nested
\* in, so that a definition that refers to its own variable (x = x + 1,
\* x += y) is resolved in finitely many steps and is never visited again
\* inside its own visit
C30_TraceTerminates == [](ChainDescends /\ Len(last.stack) < MaxDepth) /\ <>SearchEnded

\* a visit of x = x + 1 has found the definition before it
C30_Witness ==
  /\ Len(last.stack) >= 3
  /\ \E k \in 2..(Len(last.stack) - 1) :
       /\ last.stack[k].def.n = "="
       /\ last.stack[k].def.a[1] = LocalRef("x")
       /\ last.stack[k].def.a[2].n = "+"
       /\ last.stack[k + 1].def.n = "x"

=============================================================================
